---- MODULE Spec2Model ----
(***************************************************************************)
(* Modular (tree-predicted) channel coding of lib/jxl/modular/encoding:    *)
(* FilterTree, the weighted-predictor lookup tables, the execution tracks  *)
(* of EncodeModularChannelMAANS / DecodeModularChannelMAANS and the        *)
(* channel loop of ModularDecode.                                          *)
(*                                                                         *)
(* Indices (tree nodes, contexts, pixels, properties) are 0-based as in    *)
(* the source; a C++ vector v is a sequence and v[i] is written v[i + 1].  *)
(***************************************************************************)
EXTENDS Integers, Sequences, FiniteSets, TLC

VARIABLES
  pc,            \* position of the driver: which operation has run
  global_tree,   \* const Tree &global_tree
  chan,          \* pixel_type chan
  group_id,      \* size_t group_id
  filtered,      \* result of FilterTree: [tree, num_props, use_wp, wp_only]
  enc_lookup,    \* encoder's context_lookup construction: [ok, table]
  dec_lookup,    \* decoder's context_lookup/multipliers/offsets: [ok, table]
  image,         \* the encoder's Image (sequence of channels)
  tokens,        \* std::vector<Token> *tokens
  enc,           \* outcome of the last EncodeModularChannelMAANS call
  reader,        \* ANSSymbolReader + BitReader
  dec_image,     \* the decoder's Image
  dec,           \* outcome of the last decode call
  mdec,          \* outcome of ModularDecode
  learn,         \* TreeSamples, *total_pixels and the tree learned from them
  frame,         \* FinalizeFrameDecoding: the pool, apply_features_ok, result
  corpus         \* GenerateFile: the output directory and the result

vars == <<pc, global_tree, chan, group_id, filtered, enc_lookup, dec_lookup,
          image, tokens, enc, reader, dec_image, dec, mdec, learn, frame,
          corpus>>

---------------------------------------------------------------------------
(* Bounds of the model *)

\* Width in bits of pixel_type as modelled (int32_t in the program).
PixelBits == 8
\* Largest number of decision nodes of a generated tree (tree specification).
MaxInner == 3
\* Largest number of decision nodes of a tree used to code channels.
MaxCodecInner == 1
\* Channel width and height of the coded images.
MaxW == 3
MaxH == 3
\* Period of the pixel pattern (and of the symbol pattern) of an input.
PatLen == 2
\* Number of channels of an image handed to ModularDecode.
MaxChans == 3

---------------------------------------------------------------------------
(* Program constants *)

kWPPropRange == 512
kMaxProp == 256
kNumStaticProperties == 2
kNumNonrefProperties == 16
kExtraPropsPerChannel == 4
kWPProp == 15
Int8Min == -128
Int8Max == 127
\* uint16_t context_lookup[] on encode, uint8_t context_lookup[] on decode
Uint16Mod == 65536
Uint8Mod == 256

PixMax == 2 ^ (PixelBits - 1) - 1
PixMin == -(2 ^ (PixelBits - 1))

Max(a, b) == IF a >= b THEN a ELSE b
Min(a, b) == IF a <= b THEN a ELSE b
Abs(a) == IF a < 0 THEN -a ELSE a

\* DivCeil(a, b) for a >= 0, b > 0
DivCeil(a, b) == (a + b - 1) \div b

---------------------------------------------------------------------------
(* Trees *)

\* A Tree node.  A leaf has property = -1 and carries its context id in lchild.
Leaf(ctx, predictor, offset, multiplier) ==
  [property |-> -1, splitval |-> 0, lchild |-> ctx, rchild |-> 0,
   predictor |-> predictor, predictor_offset |-> offset,
   multiplier |-> multiplier]

Decision(property, splitval, lchild, rchild) ==
  [property |-> property, splitval |-> splitval, lchild |-> lchild,
   rchild |-> rchild, predictor |-> "Zero", predictor_offset |-> 0,
   multiplier |-> 1]

\* Shapes of binary trees: <<>> is a leaf, <<l, r>> a decision node.
RECURSIVE ShapesN(_)
ShapesN(k) ==
  IF k = 0 THEN {<<>>}
  ELSE UNION {{<<l, r>> : l \in ShapesN(i), r \in ShapesN(k - 1 - i)} :
              i \in 0..(k - 1)}

RECURSIVE NInner(_)
NInner(s) == IF s = <<>> THEN 0 ELSE 1 + NInner(s[1]) + NInner(s[2])

Cyc(seq, j) == seq[(j % Len(seq)) + 1]

\* The tree of shape s stored in pre-order from index idx.  The decision node
\* with pre-order number io tests property P[io + 1]; its split value is
\* S.base + S.step * (its in-order rank, counting the <= side first), so that
\* with S.step > 0 the splits met along a path are consistent (a split on the
\* > side of v is above v, one on the <= side below it).  Leaf number lo gets
\* context lo and the predictor, multiplier and offset L gives it.
RECURSIVE BuildTree(_, _, _, _, _, _, _, _)
BuildTree(s, idx, io, lo, ir, P, S, L) ==
  IF s = <<>>
  THEN <<Leaf(lo, Cyc(L.preds, lo), Cyc(L.offs, lo), Cyc(L.mults, lo))>>
  ELSE LET nl == NInner(s[1])
           nr == NInner(s[2])
           li == idx + 1
           ri == idx + 1 + (2 * nl + 1)
       IN <<Decision(P[io + 1], S.base + S.step * (ir + nr), li, ri)>>
          \o BuildTree(s[1], li, io + 1, lo, ir + nr + 1, P, S, L)
          \o BuildTree(s[2], ri, io + 1 + nl, lo + nl + 1, ir, P, S, L)

LeafW    == [preds |-> <<"Weighted">>, mults |-> <<1>>, offs |-> <<0>>]
LeafWOff == [preds |-> <<"Weighted">>, mults |-> <<1>>, offs |-> <<0, 1>>]
LeafWMul == [preds |-> <<"Weighted">>, mults |-> <<1, 2>>, offs |-> <<0>>]
LeafWBig == [preds |-> <<"Weighted">>, mults |-> <<1>>, offs |-> <<0, 200>>]
LeafWFar == [preds |-> <<"Weighted">>, mults |-> <<1>>, offs |-> <<200, 0>>]
LeafZ    == [preds |-> <<"Zero">>, mults |-> <<1>>, offs |-> <<0>>]
LeafZG   == [preds |-> <<"Zero", "Gradient">>, mults |-> <<1>>, offs |-> <<0>>]
LeafGW   == [preds |-> <<"Gradient", "Weighted">>, mults |-> <<1>>,
             offs |-> <<0>>]
LeafG    == [preds |-> <<"Gradient">>, mults |-> <<1>>, offs |-> <<0>>]
LeafG2   == [preds |-> <<"Gradient">>, mults |-> <<2>>, offs |-> <<0>>]
LeafG3   == [preds |-> <<"Gradient">>, mults |-> <<3>>, offs |-> <<0>>]
LeafGOff == [preds |-> <<"Gradient">>, mults |-> <<1>>, offs |-> <<5>>]
LeafZMul == [preds |-> <<"Zero">>, mults |-> <<2>>, offs |-> <<1>>]

Splits(base, step) == [base |-> base, step |-> step]
Config(S, L, static) == [S |-> S, L |-> L, static |-> static]

\* All trees with 1..maxInner decision nodes, labelled by a configuration of
\* configs (split scheme, leaf scheme, static property): the decision nodes
\* test the properties of nonstatic and, if withStatic, the static property
\* of the configuration.
TreesOf(maxInner, nonstatic, withStatic, configs) ==
  UNION { UNION { { BuildTree(s, 0, 0, 0, 0, P, c.S, c.L) :
                      s \in ShapesN(k),
                      P \in [1..k -> nonstatic
                               \cup (IF withStatic THEN {c.static}
                                     ELSE {})] } :
                  c \in configs } :
          k \in 1..maxInner }

SingleLeafTrees(leaves) ==
  { BuildTree(<<>>, 0, 0, 0, 0, <<>>, Splits(0, 1), L) : L \in leaves }

\* Splits around 0; lowest split -kWPPropRange - 1; splits up to the top of
\* the range; inconsistent (decreasing) splits; splits outside the range.
SplitsMid == Splits(-1, 1)
SplitsLow == Splits(-kWPPropRange - 1, 1)
SplitsHigh == Splits(kWPPropRange - 3, 1)
SplitsDown == Splits(1, -1)
SplitsWide == Splits(-kWPPropRange - 2, kWPPropRange)

\* Trees of the tree specification: decision nodes test a static property
\* (channel or group), the weighted-predictor property or the first property
\* of the first reference channel.
TreeProps == {kWPProp, kNumNonrefProperties}
LeafWMix == [preds |-> <<"Weighted">>, mults |-> <<1, 2>>,
             offs |-> <<0, 0, 0, 200>>]
TreeConfigs ==
  { Config(SplitsMid, LeafW, 0), Config(SplitsMid, LeafGW, 1),
    Config(SplitsLow, LeafW, 1), Config(SplitsLow, LeafWOff, 0),
    Config(SplitsHigh, LeafW, 0), Config(SplitsDown, LeafW, 1),
    Config(SplitsWide, LeafW, 0), Config(SplitsMid, LeafWMix, 1) }
\* Trees used to code channels: every single-leaf tree, and trees deciding on
\* the left neighbour (W) or on the weighted-predictor property.
kPropW == 7
CodecProps == {kPropW, kWPProp}
CodecConfigs ==
  { Config(SplitsMid, LeafW, 0), Config(SplitsLow, LeafW, 0),
    Config(SplitsLow, LeafWOff, 0), Config(SplitsMid, LeafZG, 0),
    Config(SplitsMid, LeafGW, 0), Config(SplitsMid, LeafWMul, 0),
    Config(SplitsWide, LeafW, 0), Config(SplitsHigh, LeafWFar, 0),
    Config(Splits(kWPPropRange - 1, 1), LeafW, 0) }
---------------------------------------------------------------------------
(* FilterTree *)

\* mark_property counting a static property as a non-weighted one, for
\* comparison.
mark_property_static(p, f) ==
  IF p = kWPProp THEN [f EXCEPT !.has_wp = TRUE]
  ELSE [f EXCEPT !.has_non_wp = TRUE]

\* mark_property
mark_property(p, f) ==
  IF p = kWPProp THEN [f EXCEPT !.has_wp = TRUE]
  ELSE IF p >= kNumStaticProperties THEN [f EXCEPT !.has_non_wp = TRUE]
  ELSE f

\* "Skip nodes that we can decide now": the loop over nodes that test a static
\* property, from node cur.
NoSkipStatic(tree, cur, sp) == cur

RECURSIVE SkipStatic(_, _, _)
SkipStatic(tree, cur, sp) ==
  LET n == tree[cur + 1]
  IN IF n.property < kNumStaticProperties /\ n.property # -1
     THEN IF sp[n.property + 1] > n.splitval
          THEN SkipStatic(tree, n.lchild, sp)
          ELSE SkipStatic(tree, n.rchild, sp)
     ELSE cur

FlatLeaf(n) ==
  [property0 |-> -1, splitval0 |-> 0, properties |-> <<0, 0>>,
   splitvals |-> <<0, 0>>, childID |-> n.lchild, predictor |-> n.predictor,
   predictor_offset |-> n.predictor_offset, multiplier |-> n.multiplier]

\* A decision node whose childID omits the node itself, for comparison.
FlatDecisionEarly(property0, splitval0, properties, splitvals, childID) ==
  [property0 |-> property0, splitval0 |-> splitval0,
   properties |-> properties, splitvals |-> splitvals,
   childID |-> childID - 1,
   predictor |-> "Zero", predictor_offset |-> 0, multiplier |-> 1]

FlatDecision(property0, splitval0, properties, splitvals, childID) ==
  [property0 |-> property0, splitval0 |-> splitval0,
   properties |-> properties, splitvals |-> splitvals, childID |-> childID,
   predictor |-> "Zero", predictor_offset |-> 0, multiplier |-> 1]

\* The child with its two grandchildren pushed in the other order, for
\* comparison.
FlatChildSwapped(tree, child, sp) ==
  LET c == SkipStatic(tree, child, sp)
      n == tree[c + 1]
  IN IF n.property = -1
     THEN [property |-> 0, splitval |-> 0, push |-> <<c, c>>, np |-> 0]
     ELSE [property |-> n.property, splitval |-> n.splitval,
           push |-> <<n.rchild, n.lchild>>, np |-> n.property + 1]

\* One child of a decision node, after skipping static nodes: the
\* (property, splitval) of the second-level decision, the two nodes pushed on
\* the queue and the contribution to num_props.
FlatChild(tree, child, sp) ==
  LET c == SkipStatic(tree, child, sp)
      n == tree[c + 1]
  IN IF n.property = -1
     THEN [property |-> 0, splitval |-> 0, push |-> <<c, c>>, np |-> 0]
     ELSE [property |-> n.property, splitval |-> n.splitval,
           push |-> <<n.lchild, n.rchild>>, np |-> n.property + 1]

\* The BFS loop.  acc = [output, num_props, has_wp, has_non_wp].
RECURSIVE FilterLoop(_, _, _, _)
FilterLoop(tree, sp, nodes, acc) ==
  IF nodes = <<>> THEN acc
  ELSE
    LET cur == SkipStatic(tree, Head(nodes), sp)
        rest == Tail(nodes)
        n == tree[cur + 1]
    IN IF n.property = -1
       THEN FilterLoop(tree, sp, rest,
              [mark_property(IF n.predictor = "Weighted" THEN kWPProp
                             ELSE kMaxProp, acc)
                 EXCEPT !.output = Append(@, FlatLeaf(n))])
       ELSE
         LET c0 == FlatChild(tree, n.lchild, sp)
             c1 == FlatChild(tree, n.rchild, sp)
             flat == FlatDecision(n.property, n.splitval,
                                  <<c0.property, c1.property>>,
                                  <<c0.splitval, c1.splitval>>,
                                  Len(acc.output) + Len(rest) + 1)
             marked == mark_property(flat.property0,
                         mark_property(flat.properties[2],
                           mark_property(flat.properties[1], acc)))
         IN FilterLoop(tree, sp, rest \o c0.push \o c1.push,
              [marked EXCEPT
                 !.output = Append(@, flat),
                 !.num_props = Max(Max(n.property + 1, c0.np),
                                   Max(c1.np, @))])

\* The rounding of num_props after the loop.
NumPropsFloor(n) ==
  IF n > kNumNonrefProperties
  THEN ((n - kNumNonrefProperties) \div kExtraPropsPerChannel)
         * kExtraPropsPerChannel + kNumNonrefProperties
  ELSE kNumNonrefProperties

NumPropsRound(n) ==
  IF n > kNumNonrefProperties
  THEN DivCeil(n - kNumNonrefProperties, kExtraPropsPerChannel)
         * kExtraPropsPerChannel + kNumNonrefProperties
  ELSE kNumNonrefProperties

FilterTree(tree, sp) ==
  LET r == FilterLoop(tree, sp, <<0>>,
             [output |-> <<>>, num_props |-> 0, has_wp |-> FALSE,
              has_non_wp |-> FALSE])
  IN [tree |-> r.output,
      num_props |-> NumPropsRound(r.num_props),
      use_wp |-> r.has_wp,
      wp_only |-> r.has_wp /\ ~r.has_non_wp]

---------------------------------------------------------------------------
(* Flat tree traversal *)

\* MATreeLookup::Lookup: the leaf of the flat tree reached with the property
\* values props (a function of the property index).
RECURSIVE MATreeLookup(_, _, _)
MATreeLookup(tree, props, pos) ==
  LET n == tree[pos + 1]
  IN IF n.property0 < 0 THEN n
     ELSE LET slot == IF props[n.property0] > n.splitval0
                      THEN (IF props[n.properties[1]] > n.splitvals[1]
                            THEN 0 ELSE 1)
                      ELSE (IF props[n.properties[2]] > n.splitvals[2]
                            THEN 2 ELSE 3)
          IN MATreeLookup(tree, props, n.childID + slot)

---------------------------------------------------------------------------
(* Weighted-predictor lookup tables *)

\* The arrays context_lookup / multipliers / offsets are kept as the list of
\* the writes made to them: each leaf writes the entries lo..hi (indices before
\* adding kWPPropRange).  An entry reads as its last write, or 0 if never
\* written (the arrays are zero-initialised).
ZeroEntry == [ctx |-> 0, multiplier |-> 0, offset |-> 0]

RECURSIVE LastWrite(_, _, _)
LastWrite(table, k, i) ==
  IF k = 0 THEN ZeroEntry
  ELSE IF table[k].lo <= i /\ i <= table[k].hi
  THEN [ctx |-> table[k].ctx, multiplier |-> table[k].multiplier,
        offset |-> table[k].offset]
  ELSE LastWrite(table, k - 1, i)

TableAt(table, i) == LastWrite(table, Len(table), i)

TreeRange(begin, end, pos) == [begin |-> begin, end |-> end, pos |-> pos]

\* "Tree is outside the allowed range"
RangeOutside(cur) ==
  \/ cur.begin < -kWPPropRange - 1
  \/ cur.begin >= kWPPropRange - 1
  \/ cur.end > kWPPropRange - 1

PushRangesSwapped(node, cur) ==
  (IF node.properties[1] >= kNumStaticProperties
   THEN << TreeRange(node.splitvals[1], cur.end, node.childID),
           TreeRange(node.splitval0, node.splitvals[1], node.childID + 1) >>
   ELSE << TreeRange(node.splitval0, cur.end, node.childID) >>)
  \o
  (IF node.properties[2] >= kNumStaticProperties
   THEN << TreeRange(node.splitvals[2], node.splitval0, node.childID + 3),
           TreeRange(cur.begin, node.splitvals[2], node.childID + 2) >>
   ELSE << TreeRange(cur.begin, node.splitval0, node.childID + 2) >>)

\* The ranges pushed for a decision node, in push order.
PushRanges(node, cur) ==
  (IF node.properties[1] >= kNumStaticProperties
   THEN << TreeRange(node.splitvals[1], cur.end, node.childID),
           TreeRange(node.splitval0, node.splitvals[1], node.childID + 1) >>
   ELSE << TreeRange(node.splitval0, cur.end, node.childID) >>)
  \o
  (IF node.properties[2] >= kNumStaticProperties
   THEN << TreeRange(node.splitvals[2], node.splitval0, node.childID + 2),
           TreeRange(cur.begin, node.splitvals[2], node.childID + 3) >>
   ELSE << TreeRange(cur.begin, node.splitval0, node.childID + 2) >>)

OffsetOutsideInt8(node) ==
  node.predictor_offset < Int8Min \/ node.predictor_offset > Int8Max

\* The encoder's leaf test without its tests of the multiplier and of a
\* non-zero offset, for comparison.
EncLeafRejectedOffsetOnly(node) == OffsetOutsideInt8(node)

\* Encoder: leaf test of the table construction.
EncLeafRejected(node) ==
  OffsetOutsideInt8(node) \/ node.multiplier # 1 \/ node.predictor_offset # 0

RECURSIVE EncLookupLoop(_, _, _)
EncLookupLoop(tree, ranges, table) ==
  IF ranges = <<>> THEN [ok |-> TRUE, table |-> table]
  ELSE
    LET cur == ranges[Len(ranges)]
        rest == SubSeq(ranges, 1, Len(ranges) - 1)
        node == tree[cur.pos + 1]
    IN IF RangeOutside(cur) THEN [ok |-> FALSE, table |-> table]
       ELSE IF node.property0 = -1
       THEN IF EncLeafRejected(node) THEN [ok |-> FALSE, table |-> table]
            ELSE EncLookupLoop(tree, rest,
                   Append(table, [lo |-> cur.begin + 1, hi |-> cur.end,
                                  ctx |-> node.childID % Uint16Mod,
                                  multiplier |-> 0, offset |-> 0]))
       ELSE EncLookupLoop(tree, rest \o PushRanges(node, cur), table)

\* Encoder: is_wp_only after the construction, and context_lookup.
EncContextLookup(ft) ==
  IF ft.wp_only
  THEN EncLookupLoop(ft.tree,
         <<TreeRange(-kWPPropRange - 1, kWPPropRange - 1, 0)>>, <<>>)
  ELSE [ok |-> FALSE, table |-> <<>>]

RECURSIVE DecLookupLoop(_, _, _)
DecLookupLoop(tree, ranges, table) ==
  IF ranges = <<>> THEN [ok |-> TRUE, table |-> table]
  ELSE
    LET cur == ranges[Len(ranges)]
        rest == SubSeq(ranges, 1, Len(ranges) - 1)
        node == tree[cur.pos + 1]
    IN IF RangeOutside(cur) THEN [ok |-> FALSE, table |-> table]
       ELSE IF node.property0 = -1
       THEN IF OffsetOutsideInt8(node) THEN [ok |-> FALSE, table |-> table]
            ELSE DecLookupLoop(tree, rest,
                   Append(table, [lo |-> cur.begin + 1, hi |-> cur.end,
                                  ctx |-> node.childID % Uint8Mod,
                                  multiplier |-> node.multiplier,
                                  offset |-> node.predictor_offset]))
       ELSE DecLookupLoop(tree, rest \o PushRanges(node, cur), table)

\* Decoder: is_wp_only after the construction, and the three arrays.
DecContextLookup(ft) ==
  IF ft.wp_only
  THEN DecLookupLoop(ft.tree,
         <<TreeRange(-kWPPropRange - 1, kWPPropRange - 1, 0)>>, <<>>)
  ELSE [ok |-> FALSE, table |-> <<>>]

\* "From here on, tree lookup returns a *clustered* context ID."
ClusterContexts(tree, context_map) ==
  [i \in 1..Len(tree) |->
     IF tree[i].property0 = -1
     THEN [tree[i] EXCEPT !.childID = context_map[tree[i].childID + 1]]
     ELSE tree[i]]

---------------------------------------------------------------------------
(* Integer helpers of the pixel loops *)

\* F applied to the value of v, with v evaluated once.
Bind(v, F(_)) == CHOOSE y \in { F(r) : r \in {v} } : TRUE

\* Conversion to pixel_type (two's complement wrap-around).
ToPixelType(v) == ((v - PixMin) % (2 ^ PixelBits)) + PixMin

Clamp(v, lo, hi) == IF v < lo THEN lo ELSE IF v > hi THEN hi ELSE v

\* SaturatingAdd<pixel_type>(a, b)
SaturatingAdd(a, b) == Clamp(a + b, PixMin, PixMax)

\* PackSigned / UnpackSigned: the zig-zag map between signed residuals and
\* unsigned token values.
PackSigned(v) ==
  LET t == ToPixelType(v) IN IF t >= 0 THEN 2 * t ELSE -2 * t - 1

UnpackSigned(u) == IF u % 2 = 0 THEN u \div 2 ELSE -((u + 1) \div 2)

RECURSIVE FloorLog2Nonzero(_)
FloorLog2Nonzero(n) == IF n <= 1 THEN 0 ELSE 1 + FloorLog2Nonzero(n \div 2)

\* n & (n - 1) == 0 for n >= 0
RECURSIVE IsPow2OrZero(_)
IsPow2OrZero(n) ==
  IF n <= 1 THEN TRUE
  ELSE IF n % 2 = 1 THEN FALSE ELSE IsPow2OrZero(n \div 2)

---------------------------------------------------------------------------
(* Channels and causal neighbours *)

\* A Channel: w, h and the pixels in raster order.
Channel(w, h, pix) == [w |-> w, h |-> h, pix |-> pix]

At(ch, x, y) == ch.pix[y * ch.w + x + 1]

\* left, top, topleft, topright, toptop (and leftleft) of pixel (x, y).
Neighbours(ch, x, y) ==
  LET left == IF x > 0 THEN At(ch, x - 1, y)
              ELSE IF y > 0 THEN At(ch, x, y - 1) ELSE 0
      top == IF y > 0 THEN At(ch, x, y - 1) ELSE left
      topleft == IF x > 0 /\ y > 0 THEN At(ch, x - 1, y - 1) ELSE left
      topright == IF x + 1 < ch.w /\ y > 0 THEN At(ch, x + 1, y - 1) ELSE top
      toptop == IF y > 1 THEN At(ch, x, y - 2) ELSE top
      leftleft == IF x > 1 THEN At(ch, x - 2, y) ELSE left
  IN [left |-> left, top |-> top, topleft |-> topleft,
      topright |-> topright, toptop |-> toptop, leftleft |-> leftleft]

ClampedGradient(n) ==
  Clamp(n.left + n.top - n.topleft, Min(n.left, n.top), Max(n.left, n.top))

---------------------------------------------------------------------------
(* Weighted predictor: weighted::Header, weighted::State *)

kPredExtraBits == 3
kPredictionRound == 3
kWPWeightScale == 1024

WPHeaders == { [p1C |-> 16, w |-> <<13, 12>>] }

AddBits(x) == x * (2 ^ kPredExtraBits)
RemoveBits(p) == (p + kPredictionRound) \div (2 ^ kPredExtraBits)

\* weighted::State(header, xsize, ysize): two rows of true errors and of
\* per-sub-predictor error sums, all zero.
WPInit(header, xsize, ysize) ==
  LET z == [i \in 0..(2 * (xsize + 2) - 1) |-> 0]
  IN [header |-> header, error |-> z, pred_errors |-> <<z, z>>,
      prediction |-> <<0, 0>>, pred |-> 0, calls |-> <<>>]

ErrorWeight(e, maxweight) == 4 + (maxweight * kWPWeightScale) \div (e + 1)

WeightedAverage(p, w) ==
  LET ws == w[1] + w[2]
  IN (p[1] * w[1] + p[2] * w[2] + (ws \div 2) - 1) \div ws

SameSign(a, b) == (a < 0) = (b < 0)

\* State::Predict: the state with prediction[] and pred set, the guess and
\* the property (the neighbouring true error of largest magnitude).
WPPredict(s, x, y, xsize, N, W, NE, NW, NN) ==
  LET cur_row == IF y % 2 = 1 THEN 0 ELSE xsize + 2
      prev_row == IF y % 2 = 1 THEN xsize + 2 ELSE 0
      pos_N == prev_row + x
      pos_NE == IF x < xsize - 1 THEN pos_N + 1 ELSE pos_N
      pos_NW == IF x > 0 THEN pos_N - 1 ELSE pos_N
      weight(i) == ErrorWeight(s.pred_errors[i][pos_N]
                               + s.pred_errors[i][pos_NE]
                               + s.pred_errors[i][pos_NW], s.header.w[i])
      weights == <<weight(1), weight(2)>>
      teW == IF x = 0 THEN 0 ELSE s.error[cur_row + x - 1]
      teN == s.error[pos_N]
      teNW == s.error[pos_NW]
      teNE == s.error[pos_NE]
      p1 == IF Abs(teN) > Abs(teW) THEN teN ELSE teW
      p2 == IF Abs(teNW) > Abs(p1) THEN teNW ELSE p1
      p3 == IF Abs(teNE) > Abs(p2) THEN teNE ELSE p2
      prediction == << AddBits(W) + AddBits(NE) - AddBits(N),
                       AddBits(N)
                         - (((teN + teW + teNE) * s.header.p1C) \div 32) >>
      avg == WeightedAverage(prediction, weights)
      mx == Max(AddBits(W), Max(AddBits(NE), AddBits(N)))
      mn == Min(AddBits(W), Min(AddBits(NE), AddBits(N)))
      pred == IF SameSign(teN, teW) /\ SameSign(teN, teNW)
                 /\ ~(teN = teW /\ teN = teNW)
              THEN avg ELSE Clamp(avg, mn, mx)
  IN [state |-> [s EXCEPT !.prediction = prediction, !.pred = pred,
                          !.calls = Append(@, <<"Predict", x, y>>)],
      guess |-> RemoveBits(pred),
      property |-> p3]

\* State::UpdateErrors(val, x, y, xsize)
WPUpdateErrors(s, val, x, y, xsize) ==
  LET cur_row == IF y % 2 = 1 THEN 0 ELSE xsize + 2
      prev_row == IF y % 2 = 1 THEN xsize + 2 ELSE 0
      v == AddBits(val)
      err(i) == RemoveBits(Abs(s.prediction[i] - v))
      updated(i) == [s.pred_errors[i] EXCEPT ![cur_row + x] = err(i),
                                             ![prev_row + x + 1] = @ + err(i)]
  IN [s EXCEPT
        !.error[cur_row + x] = s.pred - v,
        !.pred_errors = <<updated(1), updated(2)>>,
        !.calls = Append(@, <<"UpdateErrors", x, y, val>>)]

\* The weighted-predictor call of the lookup-table tracks and of
\* PredictNoTreeWP: Predict<compute_properties> on the causal neighbours.
WPPredictAt(s, ch, x, y) ==
  Bind(Neighbours(ch, x, y), LAMBDA n :
    WPPredict(s, x, y, ch.w, n.top, n.left, n.topright, n.topleft, n.toptop))

---------------------------------------------------------------------------
(* Predictors and properties *)

\* PredictNoTreeNoWP: the guess of a non-weighted predictor.
PredictNoTreeNoWP(ch, x, y, predictor) ==
  IF predictor = "Zero" THEN 0 ELSE ClampedGradient(Neighbours(ch, x, y))

\* PrecomputeReferences: property r >= 0 of the reference block of pixel
\* (x, y) of channel c: earlier channels of the same size, nearest first,
\* kExtraPropsPerChannel values each; 0 when there is no such channel.
RECURSIVE RefChannel(_, _, _, _)
RefChannel(img, c, j, n) ==
  IF j < 0 THEN -1
  ELSE IF img[j + 1].w = img[c + 1].w /\ img[j + 1].h = img[c + 1].h
       THEN (IF n = 0 THEN j ELSE RefChannel(img, c, j - 1, n - 1))
       ELSE RefChannel(img, c, j - 1, n)

Reference(img, c, x, y, r) ==
  LET j == RefChannel(img, c, c - 1, r \div kExtraPropsPerChannel)
  IN IF j < 0 THEN 0
     ELSE LET v == At(img[j + 1], x, y)
              g == ClampedGradient(Neighbours(img[j + 1], x, y))
              k == r % kExtraPropsPerChannel
          IN IF k = 0 THEN Abs(v)
             ELSE IF k = 1 THEN v
             ELSE IF k = 2 THEN Abs(v - g) ELSE v - g

\* The property vector of pixel (x, y) of channel c (InitPropsRow and the
\* property computation of PredictTreeNoWP / PredictTreeWP); wpprop is the
\* weighted-predictor property (0 when the predictor is not run).
Properties(img, c, x, y, sp, num_props, wpprop) ==
  LET ch == img[c + 1]
      n == Neighbours(ch, x, y)
      prev == IF x > 0
              THEN LET m == Neighbours(ch, x - 1, y)
                   IN m.left + m.top - m.topleft
              ELSE 0
      base == << sp[1], sp[2], y, x, Abs(n.top), Abs(n.left), n.top, n.left,
                 n.left - prev, n.left + n.top - n.topleft,
                 n.left - n.topleft, n.topleft - n.top, n.top - n.topright,
                 n.top - n.toptop, n.left - n.leftleft, wpprop >>
  IN [i \in 0..(num_props - 1) |->
        IF i < kNumNonrefProperties THEN base[i + 1]
        ELSE Reference(img, c, x, y, i - kNumNonrefProperties)]

\* PredictTreeNoWP / PredictTreeWP after the lookup: the PredictionResult for
\* the leaf the tree selects (guess includes the leaf's offset).
PredictionResult(leaf, guess) ==
  [context |-> leaf.childID, guess |-> guess + leaf.predictor_offset,
   multiplier |-> leaf.multiplier, predictor |-> leaf.predictor]

---------------------------------------------------------------------------
(* EncodeModularChannelMAANS *)

Token(ctx, value) == [ctx |-> ctx, value |-> value]

\* Index into the lookup arrays for a weighted-predictor property value.
ClampedPos(property) ==
  kWPPropRange + Min(Max(-kWPPropRange, property), kWPPropRange - 1)

\* The encoder's progress through a channel: "ok" or "abort" (a failed
\* assertion), the token vector and the weighted-predictor state.
EncAcc(status, toks, wp) == [status |-> status, tokens |-> toks, wp |-> wp]

\* Track 1 with UpdateErrors called with the guess in place of the pixel.
EncWPLookupPixelStale(ch, table, x, y, a) ==
  Bind(WPPredictAt(a.wp, ch, x, y), LAMBDA p :
    EncAcc("ok",
      Append(a.tokens,
        Token(TableAt(table, ClampedPos(p.property) - kWPPropRange).ctx,
              PackSigned(ToPixelType(At(ch, x, y) - p.guess)))),
      WPUpdateErrors(p.state, p.guess, x, y, ch.w)))

\* Track 1: WP-only tree, context from the lookup table.  One pixel.
EncWPLookupPixel(ch, table, x, y, a) ==
  Bind(WPPredictAt(a.wp, ch, x, y), LAMBDA p :
    EncAcc("ok",
      Append(a.tokens,
        Token(TableAt(table, ClampedPos(p.property) - kWPPropRange).ctx,
              PackSigned(ToPixelType(At(ch, x, y) - p.guess)))),
      WPUpdateErrors(p.state, At(ch, x, y), x, y, ch.w)))

RECURSIVE EncWPLookupLoop(_, _, _, _)
EncWPLookupLoop(ch, table, k, a) ==
  IF k = ch.w * ch.h THEN a
  ELSE Bind(EncWPLookupPixel(ch, table, k % ch.w, k \div ch.w, a),
            LAMBDA b : EncWPLookupLoop(ch, table, k + 1, b))

\* Track 2: single leaf, Zero predictor, multiplier 1, offset 0.
EncZeroPixel(ch, leaf, x, y, a) ==
  EncAcc("ok",
    Append(a.tokens, Token(leaf.childID, PackSigned(At(ch, x, y)))), a.wp)

RECURSIVE EncZeroLoop(_, _, _, _)
EncZeroLoop(ch, leaf, k, a) ==
  IF k = ch.w * ch.h THEN a
  ELSE Bind(EncZeroPixel(ch, leaf, k % ch.w, k \div ch.w, a),
            LAMBDA b : EncZeroLoop(ch, leaf, k + 1, b))

\* The shift track with the residual shifted one bit too far.
EncShiftPixelOverShift(ch, leaf, debug, x, y, a) ==
  Bind(At(ch, x, y) - PredictNoTreeNoWP(ch, x, y, leaf.predictor),
       LAMBDA residual :
    EncAcc("ok",
      Append(a.tokens,
        Token(leaf.childID,
          PackSigned(residual
                       \div (2 ^ (FloorLog2Nonzero(leaf.multiplier) + 1))))),
      a.wp))

\* Track 3: single leaf, non-weighted predictor, power-of-two multiplier.
\* JXL_DASSERT aborts a debug build when the shift is not exact.
EncShiftPixel(ch, leaf, debug, x, y, a) ==
  Bind(At(ch, x, y) - PredictNoTreeNoWP(ch, x, y, leaf.predictor),
       LAMBDA residual :
    Bind(residual \div (2 ^ FloorLog2Nonzero(leaf.multiplier)),
         LAMBDA shifted :
      IF debug /\ shifted * leaf.multiplier # residual
      THEN EncAcc("abort", a.tokens, a.wp)
      ELSE EncAcc("ok",
             Append(a.tokens, Token(leaf.childID, PackSigned(shifted))),
             a.wp)))

RECURSIVE EncShiftLoop(_, _, _, _, _)
EncShiftLoop(ch, leaf, debug, k, a) ==
  IF k = ch.w * ch.h \/ a.status = "abort" THEN a
  ELSE Bind(EncShiftPixel(ch, leaf, debug, k % ch.w, k \div ch.w, a),
            LAMBDA b : EncShiftLoop(ch, leaf, debug, k + 1, b))

\* C++ integer division (truncation towards zero), b > 0.
TruncDiv(a, b) == IF a >= 0 THEN a \div b ELSE -((-a) \div b)

\* The token written with the truncated quotient whether or not the
\* multiplier divides the residual, for comparison.
EncResidualRounding(ch, x, y, res, a, wp, update) ==
  Bind(At(ch, x, y) - res.guess, LAMBDA residual :
    EncAcc("ok",
      Append(a.tokens, Token(res.context,
               PackSigned(TruncDiv(residual, res.multiplier)))),
      IF update THEN WPUpdateErrors(wp, At(ch, x, y), x, y, ch.w) ELSE wp))

\* The token for the PredictionResult res of pixel (x, y), or the abort of
\* JXL_ASSERT(residual % res.multiplier == 0); wp is the state after the
\* prediction.
EncResidual(ch, x, y, res, a, wp, update) ==
  Bind(At(ch, x, y) - res.guess, LAMBDA residual :
    IF residual % res.multiplier # 0
    THEN EncAcc("abort", a.tokens, wp)
    ELSE EncAcc("ok",
           Append(a.tokens, Token(res.context,
                    PackSigned(TruncDiv(residual, res.multiplier)))),
           IF update THEN WPUpdateErrors(wp, At(ch, x, y), x, y, ch.w)
           ELSE wp))

\* Track 4: tree traversal without weighted-predictor state.
EncTreeNoWPPixel(img, c, ft, sp, x, y, a) ==
  Bind(MATreeLookup(ft.tree,
         Properties(img, c, x, y, sp, ft.num_props, 0), 0), LAMBDA leaf :
    EncResidual(img[c + 1], x, y,
      PredictionResult(leaf,
        PredictNoTreeNoWP(img[c + 1], x, y, leaf.predictor)),
      a, a.wp, FALSE))

RECURSIVE EncTreeNoWPLoop(_, _, _, _, _, _)
EncTreeNoWPLoop(img, c, ft, sp, k, a) ==
  IF k = img[c + 1].w * img[c + 1].h \/ a.status = "abort" THEN a
  ELSE Bind(EncTreeNoWPPixel(img, c, ft, sp, k % img[c + 1].w,
                             k \div img[c + 1].w, a),
            LAMBDA b : EncTreeNoWPLoop(img, c, ft, sp, k + 1, b))

\* Track 5: tree traversal with weighted-predictor state.
EncTreeWPPixel(img, c, ft, sp, x, y, a) ==
  Bind(WPPredictAt(a.wp, img[c + 1], x, y), LAMBDA p :
    Bind(MATreeLookup(ft.tree,
           Properties(img, c, x, y, sp, ft.num_props, p.property), 0),
         LAMBDA leaf :
      EncResidual(img[c + 1], x, y,
        PredictionResult(leaf,
          IF leaf.predictor = "Weighted" THEN p.guess
          ELSE PredictNoTreeNoWP(img[c + 1], x, y, leaf.predictor)),
        a, p.state, TRUE)))

RECURSIVE EncTreeWPLoop(_, _, _, _, _, _)
EncTreeWPLoop(img, c, ft, sp, k, a) ==
  IF k = img[c + 1].w * img[c + 1].h \/ a.status = "abort" THEN a
  ELSE Bind(EncTreeWPPixel(img, c, ft, sp, k % img[c + 1].w,
                           k \div img[c + 1].w, a),
            LAMBDA b : EncTreeWPLoop(img, c, ft, sp, k + 1, b))

\* The else-if chain selecting the encoder's track.
EncTrackAlwaysTree(ft, lookup) == IF ft.use_wp THEN "tree_wp" ELSE "tree_nowp"

EncTrack(ft, lookup) ==
  IF lookup.ok THEN "wp_lookup"
  ELSE IF Len(ft.tree) = 1 /\ ft.tree[1].predictor = "Zero"
          /\ ft.tree[1].multiplier = 1 /\ ft.tree[1].predictor_offset = 0
  THEN "zero"
  ELSE IF Len(ft.tree) = 1 /\ ft.tree[1].predictor # "Weighted"
          /\ IsPow2OrZero(ft.tree[1].multiplier)
          /\ ft.tree[1].predictor_offset = 0
  THEN "shift"
  ELSE IF ~ft.use_wp THEN "tree_nowp"
  ELSE "tree_wp"

\* The pixel loop of one track on channel c of img, appending to toks.
EncRunTrack(track, img, c, header, ft, lookup, sp, toks, debug) ==
  CASE track = "wp_lookup" ->
         EncWPLookupLoop(img[c + 1], lookup.table, 0,
           EncAcc("ok", toks, WPInit(header, img[c + 1].w, img[c + 1].h)))
    [] track = "zero" ->
         EncZeroLoop(img[c + 1], ft.tree[1], 0, EncAcc("ok", toks, <<>>))
    [] track = "shift" ->
         EncShiftLoop(img[c + 1], ft.tree[1], debug, 0,
                      EncAcc("ok", toks, <<>>))
    [] track = "tree_nowp" ->
         EncTreeNoWPLoop(img, c, ft, sp, 0, EncAcc("ok", toks, <<>>))
    [] track = "tree_wp" ->
         EncTreeWPLoop(img, c, ft, sp, 0,
           EncAcc("ok", toks, WPInit(header, img[c + 1].w, img[c + 1].h)))

\* The encoder writing into a cleared token vector, for comparison.
EncodeClearingTokens(img, c, header, tree, toks, gid, debug) ==
  Bind(FilterTree(tree, <<c, gid>>), LAMBDA ft :
    Bind(EncContextLookup(ft), LAMBDA lookup :
      Bind(EncTrack(ft, lookup), LAMBDA track :
        Bind(EncRunTrack(track, img, c, header, ft, lookup, <<c, gid>>,
                         <<>>, debug), LAMBDA r :
          [status |-> r.status, track |-> track, tokens |-> r.tokens,
           wp |-> r.wp, before |-> toks]))))

\* EncodeModularChannelMAANS(image, chan, wp_header, global_tree, tokens,
\* aux_out, group_id); debug tells whether JXL_DASSERT is compiled in.
EncodeModularChannelMAANS(img, c, header, tree, toks, gid, debug) ==
  Bind(FilterTree(tree, <<c, gid>>), LAMBDA ft :
    Bind(EncContextLookup(ft), LAMBDA lookup :
      Bind(EncTrack(ft, lookup), LAMBDA track :
        Bind(EncRunTrack(track, img, c, header, ft, lookup, <<c, gid>>,
                         toks, debug), LAMBDA r :
          [status |-> r.status, track |-> track, tokens |-> r.tokens,
           wp |-> r.wp, before |-> toks]))))

---------------------------------------------------------------------------
(* The entropy collaborator: ANSSymbolReader on a BitReader *)

\* Clustered context ids of the model.
CtxIds == 0..(MaxInner + 1)

\* kind "tokens": the symbols of each clustered context are the values of the
\* tokens written with that context, in order.  kind "pattern": the n-th
\* symbol of context c is pat[(n + c) mod Len(pat)] (an arbitrary stream).
\* avail is the number of symbols the bit stream holds before it ends;
\* reading past it, or past the last token of a context, yields 0 and is a
\* read outside the bounds.  ans_single tells whether the code is in the mode
\* in which IsSingleValue may answer (ANS, no extra bits).
NewReader(kind, toks, pat, avail, ans_single) ==
  [kind |-> kind, toks |-> toks, pat |-> pat, avail |-> avail,
   ans_single |-> ans_single, cnt |-> [c \in CtxIds |-> 0], total |-> 0,
   oob |-> FALSE]

CtxValues(rd, c) ==
  IF rd.kind = "pattern" THEN rd.pat
  ELSE LET OfCtx(t) == t.ctx = c
           q == SelectSeq(rd.toks, OfCtx)
       IN [i \in 1..Len(q) |-> q[i].value]

kSingleValueLimit == 16

\* IsSingleValue(ctx, &value, count): the histogram of ctx has one symbol.
IsSingleValue(rd, c) ==
  LET q == CtxValues(rd, c)
      vals == {q[i] : i \in 1..Len(q)}
  IN IF rd.ans_single /\ Cardinality(vals) = 1
        /\ (\A v \in vals : v < kSingleValueLimit)
     THEN [single |-> TRUE, value |-> CHOOSE v \in vals : TRUE]
     ELSE [single |-> FALSE, value |-> 0]

\* ReadHybridUintClustered(ctx, br)
ReadHybridUintClustered(rd, c) ==
  LET n == rd.cnt[c]
      q == CtxValues(rd, c)
      within == rd.total < rd.avail /\ (rd.kind = "pattern" \/ n < Len(q))
  IN [value |-> IF ~within THEN 0
                ELSE IF rd.kind = "pattern" THEN Cyc(q, n + c) ELSE q[n + 1],
      reader |-> [rd EXCEPT !.cnt[c] = n + 1, !.total = @ + 1,
                            !.oob = @ \/ ~within]]

---------------------------------------------------------------------------
(* DecodeModularChannelMAANS *)

\* One decoded pixel, as recorded for the properties below: the context read,
\* the symbol, the leaf's multiplier and offset, the predictor's guess
\* (without the offset) and the value stored.
PixelRecord(ctx, sym, multiplier, offset, guess, stored) ==
  [ctx |-> ctx, sym |-> sym, multiplier |-> multiplier, offset |-> offset,
   guess |-> guess, stored |-> stored]

SetPixel(ch, x, y, v) == [ch EXCEPT !.pix[y * ch.w + x + 1] = v]

\* The decoder's progress through a channel: the channel, the entropy
\* reader, the weighted-predictor state and the record of the pixels decoded.
DecAcc(ch, rd, wp, log) ==
  [channel |-> ch, reader |-> rd, wp |-> wp, log |-> log]

\* The store with conversion to pixel_type in place of saturation, for
\* comparison.
DecStoreWrapping(a, x, y, ctx, multiplier, offset, guess, wp, update) ==
  Bind(ReadHybridUintClustered(a.reader, ctx), LAMBDA r :
    Bind(ToPixelType(UnpackSigned(r.value) * multiplier + guess + offset),
         LAMBDA v :
      DecAcc(SetPixel(a.channel, x, y, v), r.reader,
             IF update THEN WPUpdateErrors(wp, v, x, y, a.channel.w) ELSE wp,
             Append(a.log,
                    PixelRecord(ctx, r.value, multiplier, offset, guess, v)))))

\* r[x] = SaturatingAdd<pixel_type>(UnpackSigned(v) * multiplier, g) for the
\* symbol v read with context ctx, g being guess + offset; then
\* UpdateErrors if the track keeps weighted-predictor state wp.
DecStore(a, x, y, ctx, multiplier, offset, guess, wp, update) ==
  Bind(ReadHybridUintClustered(a.reader, ctx), LAMBDA r :
    Bind(SaturatingAdd(UnpackSigned(r.value) * multiplier, guess + offset),
         LAMBDA v :
      DecAcc(SetPixel(a.channel, x, y, v), r.reader,
             IF update THEN WPUpdateErrors(wp, v, x, y, a.channel.w) ELSE wp,
             Append(a.log,
                    PixelRecord(ctx, r.value, multiplier, offset, guess, v)))))

\* "WP fast track."  r[x] = SaturatingAdd(UnpackSigned(v) * multipliers[pos]
\* + offsets[pos], guess).
DecWPLookupPixel(table, x, y, a) ==
  Bind(WPPredictAt(a.wp, a.channel, x, y), LAMBDA p :
    Bind(TableAt(table, ClampedPos(p.property) - kWPPropRange), LAMBDA e :
      DecStore(a, x, y, e.ctx, e.multiplier, e.offset, p.guess, p.state,
               TRUE)))

RECURSIVE DecWPLookupLoop(_, _, _)
DecWPLookupLoop(table, k, a) ==
  IF k = a.channel.w * a.channel.h THEN a
  ELSE Bind(DecWPLookupPixel(table, k % a.channel.w, k \div a.channel.w, a),
            LAMBDA b : DecWPLookupLoop(table, k + 1, b))

\* "Fastest track.": the whole channel is one value, nothing is read.
DecSingleValueFill(leaf, value, a) ==
  Bind(SaturatingAdd(UnpackSigned(value) * leaf.multiplier,
                     leaf.predictor_offset), LAMBDA v :
    DecAcc([a.channel EXCEPT
              !.pix = [i \in 1..(a.channel.w * a.channel.h) |-> v]],
           a.reader, a.wp,
           [i \in 1..(a.channel.w * a.channel.h) |->
              PixelRecord(leaf.childID, value, leaf.multiplier,
                          leaf.predictor_offset, 0, v)]))

\* "Fast track."
RECURSIVE DecZeroLoop(_, _, _)
DecZeroLoop(leaf, k, a) ==
  IF k = a.channel.w * a.channel.h THEN a
  ELSE Bind(DecStore(a, k % a.channel.w, k \div a.channel.w, leaf.childID,
                     leaf.multiplier, leaf.predictor_offset, 0, a.wp, FALSE),
            LAMBDA b : DecZeroLoop(leaf, k + 1, b))

\* "Quite fast track."
DecNoTreeNoWPPixel(leaf, x, y, a) ==
  DecStore(a, x, y, leaf.childID, leaf.multiplier, leaf.predictor_offset,
           PredictNoTreeNoWP(a.channel, x, y, leaf.predictor), a.wp, FALSE)

RECURSIVE DecNoTreeNoWPLoop(_, _, _)
DecNoTreeNoWPLoop(leaf, k, a) ==
  IF k = a.channel.w * a.channel.h THEN a
  ELSE Bind(DecNoTreeNoWPPixel(leaf, k % a.channel.w, k \div a.channel.w, a),
            LAMBDA b : DecNoTreeNoWPLoop(leaf, k + 1, b))

\* "Somewhat fast track."
DecNoTreeWPPixel(leaf, x, y, a) ==
  Bind(WPPredictAt(a.wp, a.channel, x, y), LAMBDA p :
    DecStore(a, x, y, leaf.childID, leaf.multiplier, leaf.predictor_offset,
             p.guess, p.state, TRUE))

RECURSIVE DecNoTreeWPLoop(_, _, _)
DecNoTreeWPLoop(leaf, k, a) ==
  IF k = a.channel.w * a.channel.h THEN a
  ELSE Bind(DecNoTreeWPPixel(leaf, k % a.channel.w, k \div a.channel.w, a),
            LAMBDA b : DecNoTreeWPLoop(leaf, k + 1, b))

\* "Slow track."  cur is the image with the channel as decoded so far.
DecTreeNoWPPixel(cur, c, ft, sp, x, y, a) ==
  Bind(MATreeLookup(ft.tree,
         Properties(cur, c, x, y, sp, ft.num_props, 0), 0), LAMBDA leaf :
    DecStore(a, x, y, leaf.childID, leaf.multiplier, leaf.predictor_offset,
             PredictNoTreeNoWP(a.channel, x, y, leaf.predictor), a.wp,
             FALSE))

RECURSIVE DecTreeNoWPLoop(_, _, _, _, _, _)
DecTreeNoWPLoop(img, c, ft, sp, k, a) ==
  IF k = a.channel.w * a.channel.h THEN a
  ELSE Bind(DecTreeNoWPPixel([img EXCEPT ![c + 1] = a.channel], c, ft, sp,
                             k % a.channel.w, k \div a.channel.w, a),
            LAMBDA b : DecTreeNoWPLoop(img, c, ft, sp, k + 1, b))

\* "Slowest track."
DecTreeWPPixel(cur, c, ft, sp, x, y, a) ==
  Bind(WPPredictAt(a.wp, a.channel, x, y), LAMBDA p :
    Bind(MATreeLookup(ft.tree,
           Properties(cur, c, x, y, sp, ft.num_props, p.property), 0),
         LAMBDA leaf :
      DecStore(a, x, y, leaf.childID, leaf.multiplier, leaf.predictor_offset,
               IF leaf.predictor = "Weighted" THEN p.guess
               ELSE PredictNoTreeNoWP(a.channel, x, y, leaf.predictor),
               p.state, TRUE)))

RECURSIVE DecTreeWPLoop(_, _, _, _, _, _)
DecTreeWPLoop(img, c, ft, sp, k, a) ==
  IF k = a.channel.w * a.channel.h THEN a
  ELSE Bind(DecTreeWPPixel([img EXCEPT ![c + 1] = a.channel], c, ft, sp,
                           k % a.channel.w, k \div a.channel.w, a),
            LAMBDA b : DecTreeWPLoop(img, c, ft, sp, k + 1, b))

\* The else-if chain selecting the decoder's track.
DecTrackAlwaysRead(ft, lookup, rd) ==
  IF lookup.ok THEN "wp_lookup"
  ELSE IF Len(ft.tree) = 1
  THEN IF ft.tree[1].predictor = "Zero" THEN "zero"
       ELSE IF ft.tree[1].predictor # "Weighted" THEN "notree_nowp"
       ELSE "notree_wp"
  ELSE IF ~ft.use_wp THEN "tree_nowp"
  ELSE "tree_wp"

DecTrack(ft, lookup, rd) ==
  IF lookup.ok THEN "wp_lookup"
  ELSE IF Len(ft.tree) = 1
  THEN IF ft.tree[1].predictor = "Zero"
       THEN (IF IsSingleValue(rd, ft.tree[1].childID).single
             THEN "single_value" ELSE "zero")
       ELSE IF ft.tree[1].predictor # "Weighted" THEN "notree_nowp"
       ELSE "notree_wp"
  ELSE IF ~ft.use_wp THEN "tree_nowp"
  ELSE "tree_wp"

\* The pixel loop of one track on channel c of img.
DecRunTrack(track, img, c, header, ft, lookup, sp, rd) ==
  CASE track = "wp_lookup" ->
         DecWPLookupLoop(lookup.table, 0,
           DecAcc(img[c + 1], rd,
                  WPInit(header, img[c + 1].w, img[c + 1].h), <<>>))
    [] track = "single_value" ->
         DecSingleValueFill(ft.tree[1],
           IsSingleValue(rd, ft.tree[1].childID).value,
           DecAcc(img[c + 1], rd, <<>>, <<>>))
    [] track = "zero" ->
         DecZeroLoop(ft.tree[1], 0, DecAcc(img[c + 1], rd, <<>>, <<>>))
    [] track = "notree_nowp" ->
         DecNoTreeNoWPLoop(ft.tree[1], 0, DecAcc(img[c + 1], rd, <<>>, <<>>))
    [] track = "notree_wp" ->
         DecNoTreeWPLoop(ft.tree[1], 0,
           DecAcc(img[c + 1], rd,
                  WPInit(header, img[c + 1].w, img[c + 1].h), <<>>))
    [] track = "tree_nowp" ->
         DecTreeNoWPLoop(img, c, ft, sp, 0, DecAcc(img[c + 1], rd, <<>>, <<>>))
    [] track = "tree_wp" ->
         DecTreeWPLoop(img, c, ft, sp, 0,
           DecAcc(img[c + 1], rd,
                  WPInit(header, img[c + 1].w, img[c + 1].h), <<>>))

\* FilterTree followed by the replacement of the leaves' context ids.
DecFilterTree(tree, sp, context_map) ==
  Bind(FilterTree(tree, sp), LAMBDA ft :
    [ft EXCEPT !.tree = ClusterContexts(ft.tree, context_map)])

\* The channel decode with the track chosen by Track.
DecodeWith(track, rd, ft, lookup, header, c, gid, img) ==
  Bind(DecRunTrack(track, img, c, header, ft, lookup, <<c, gid>>, rd),
       LAMBDA a :
    [status |-> "ok", track |-> track,
     image |-> [img EXCEPT ![c + 1] = a.channel],
     reader |-> a.reader, log |-> a.log, wp |-> a.wp])

\* The caller's objects behind the const references global_tree and
\* context_map, as they are when the call returns.
ConstArguments(tree, context_map) ==
  [global_tree |-> tree, context_map |-> context_map]

\* The channel decode writing the clustered context ids into the global
\* tree and the pixels into every channel of the same size, for comparison.
DecodeSharingState(rd, context_map, tree, header, c, gid, img) ==
  Bind(DecFilterTree(tree, <<c, gid>>, context_map), LAMBDA ft :
    Bind(DecContextLookup(ft), LAMBDA lookup :
      Bind(DecodeWith(DecTrack(ft, lookup, rd), rd, ft, lookup, header, c,
                      gid, img), LAMBDA r :
        [r EXCEPT !.image = [i \in 1..Len(img) |->
                               IF img[i].w = img[c + 1].w
                                  /\ img[i].h = img[c + 1].h
                               THEN r.image[c + 1] ELSE img[i]]]
          @@ ConstArguments(
               [i \in 1..Len(tree) |->
                  IF tree[i].property = -1
                  THEN [tree[i] EXCEPT
                          !.lchild = context_map[tree[i].lchild + 1]]
                  ELSE tree[i]],
               context_map))))

\* DecodeModularChannelMAANS(br, reader, context_map, global_tree, wp_header,
\* chan, group_id, image)
DecodeModularChannelMAANS(rd, context_map, tree, header, c, gid, img) ==
  IF img[c + 1].w = 0 \/ img[c + 1].h = 0
  THEN [status |-> "ok", track |-> "empty", image |-> img, reader |-> rd,
        log |-> <<>>, wp |-> <<>>] @@ ConstArguments(tree, context_map)
  ELSE
    Bind(DecFilterTree(tree, <<c, gid>>, context_map), LAMBDA ft :
      Bind(DecContextLookup(ft), LAMBDA lookup :
        DecodeWith(DecTrack(ft, lookup, rd), rd, ft, lookup, header, c, gid,
                   img) @@ ConstArguments(tree, context_map)))

---------------------------------------------------------------------------
(* The bit stream of a group: what a BitWriter holds and a BitReader reads *)

\* One write to the BitWriter: the call that made it (kind), the layer it
\* is accounted to, and what was written.
Section(kind, layer, value) == [kind |-> kind, layer |-> layer, value |-> value]

\* GroupHeader without transforms.
GroupHeader(use_global_tree, wp_header) ==
  [use_global_tree |-> use_global_tree, wp_header |-> wp_header]

\* A BitReader at the start of what writer holds; avail is the number of
\* symbols it delivers before it ends.
BitReader(writer, avail) == [sections |-> writer, pos |-> 0, avail |-> avail]

\* The next write, if it is of the kind the caller reads.
ReadSection(br, kind) ==
  IF /\ br.pos < Len(br.sections)
     /\ br.sections[br.pos + 1].kind = kind
  THEN [ok |-> TRUE, value |-> br.sections[br.pos + 1].value,
        br |-> [br EXCEPT !.pos = @ + 1]]
  ELSE [ok |-> FALSE, value |-> <<>>, br |-> br]

\* Bundle::Write(header, writer, layer, aux_out)
BundleWrite(header, writer, layer) ==
  Append(writer, Section("header", layer, header))

\* Bundle::Read(br, &header)
BundleRead(br) == ReadSection(br, "header")

\* BuildAndEncodeHistograms(params, num_contexts, tokens, &code,
\* &context_map, writer, layer, aux_out); code is the code it builds: the
\* context map and whether IsSingleValue may answer.
BuildAndEncodeHistograms(num_contexts, code, writer, layer) ==
  Append(writer, Section("histograms", layer,
                         [num_contexts |-> num_contexts, code |-> code]))

\* DecodeHistograms(br, num_contexts, &code, &context_map)
DecodeHistograms(br, num_contexts) ==
  Bind(ReadSection(br, "histograms"), LAMBDA r :
    IF r.ok /\ r.value.num_contexts = num_contexts
    THEN [ok |-> TRUE, code |-> r.value.code, br |-> r.br]
    ELSE [ok |-> FALSE, code |-> <<>>, br |-> br])

\* WriteTokens(tokens, code, context_map, writer, layer, aux_out): the
\* tokens under their clustered contexts.
WriteTokens(toks, context_map, writer, layer) ==
  Append(writer,
    Section("tokens", layer,
      [i \in 1..Len(toks) |->
         Token(context_map[toks[i].ctx + 1], toks[i].value)]))

\* ANSSymbolReader reader(code, br, distance_multiplier): the symbols are
\* those of the tokens written next.
SymbolReader(code, br, distance_multiplier) ==
  Bind(ReadSection(br, "tokens"), LAMBDA r :
    [distance_multiplier |-> distance_multiplier]
      @@ NewReader("tokens", r.value, <<>>, br.avail, code.ans_single))

\* The contexts of the tokens of a serialized tree: one per field of a node.
TreeContexts == <<"property", "splitval", "predictor", "offset", "multiplier">>

TreeContext(field) == (CHOOSE i \in 1..Len(TreeContexts) : TreeContexts[i] = field) - 1

\* The nodes of tree in the order of their serialization: breadth first, so
\* that the children of a decision node follow from the number of nodes
\* written and pending.
RECURSIVE BreadthFirst(_, _, _)
BreadthFirst(tree, queue, out) ==
  IF queue = <<>> THEN out
  ELSE IF tree[Head(queue) + 1].property = -1
  THEN BreadthFirst(tree, Tail(queue), Append(out, tree[Head(queue) + 1]))
  ELSE BreadthFirst(tree,
         Tail(queue) \o <<tree[Head(queue) + 1].lchild,
                          tree[Head(queue) + 1].rchild>>,
         Append(out, tree[Head(queue) + 1]))

\* The tokens of one node: property + 1 and the split value of a decision
\* node, or 0 and the predictor, offset and multiplier of a leaf.
NodeTokens(node) ==
  IF node.property = -1
  THEN <<Token(TreeContext("property"), 0),
         Token(TreeContext("predictor"), node.predictor),
         Token(TreeContext("offset"), node.predictor_offset),
         Token(TreeContext("multiplier"), node.multiplier)>>
  ELSE <<Token(TreeContext("property"), node.property + 1),
         Token(TreeContext("splitval"), node.splitval)>>

RECURSIVE Flatten(_)
Flatten(seqs) == IF seqs = <<>> THEN <<>> ELSE Head(seqs) \o Flatten(Tail(seqs))

\* The tree a sequence of tree tokens stands for: to_decode nodes are
\* pending, leaves get the context ids 0, 1, ... in the order read.
RECURSIVE DecodeNodes(_, _, _, _, _)
DecodeNodes(toks, pos, tree, to_decode, leaf_id) ==
  IF to_decode = 0 THEN [ok |-> TRUE, tree |-> tree]
  ELSE IF pos > Len(toks) THEN [ok |-> FALSE, tree |-> tree]
  ELSE IF toks[pos].value = 0
  THEN IF pos + 3 > Len(toks) THEN [ok |-> FALSE, tree |-> tree]
       ELSE DecodeNodes(toks, pos + 4,
              Append(tree, Leaf(leaf_id, toks[pos + 1].value,
                                toks[pos + 2].value, toks[pos + 3].value)),
              to_decode - 1, leaf_id + 1)
  ELSE IF pos + 1 > Len(toks) THEN [ok |-> FALSE, tree |-> tree]
  ELSE DecodeNodes(toks, pos + 2,
         Append(tree, Decision(toks[pos].value - 1, toks[pos + 1].value,
                               Len(tree) + to_decode,
                               Len(tree) + to_decode + 1)),
         to_decode + 1, leaf_id)

\* TokenizeTree(tree, &tokens, &decoded_tree)
TokenizeTree(tree) ==
  Bind(BreadthFirst(tree, <<0>>, <<>>), LAMBDA nodes :
    Bind(Flatten([i \in 1..Len(nodes) |-> NodeTokens(nodes[i])]), LAMBDA t :
      [tokens |-> t, decoded_tree |-> DecodeNodes(t, 1, <<>>, 1, 0).tree]))

\* DecodeTree(br, &tree, tree_size_limit): the histograms of the tree
\* tokens, then the tokens.
DecodeTree(br) ==
  Bind(DecodeHistograms(br, Len(TreeContexts)), LAMBDA h :
    IF ~h.ok THEN [ok |-> FALSE, tree |-> <<>>, br |-> br]
    ELSE Bind(ReadSection(h.br, "tokens"), LAMBDA r :
           IF ~r.ok THEN [ok |-> FALSE, tree |-> <<>>, br |-> br]
           ELSE Bind(DecodeNodes(r.value, 1, <<>>, 1, 0), LAMBDA d :
                  [ok |-> d.ok, tree |-> d.tree, br |-> r.br])))

---------------------------------------------------------------------------
(* ModularDecode *)

\* ZeroFillImage(&channel.plane)
ZeroFillImage(ch) == [ch EXCEPT !.pix = [i \in 1..(ch.w * ch.h) |-> 0]]

\* br->AllReadsWithinBounds()
AllReadsWithinBounds(rd) == ~rd.oob

\* ModularOptions and the image's nb_meta_channels, as far as ModularDecode
\* reads them.
Options(skipchannels, max_chan_size, nb_meta_channels) ==
  [skipchannels |-> skipchannels, max_chan_size |-> max_chan_size,
   nb_meta_channels |-> nb_meta_channels]

\* "skip empty channels"
EmptyChannel(ch) == ch.w = 0 \/ ch.h = 0

\* The break taken for the width alone, for comparison.
TooLargeWidthOnly(img, i, options) ==
  i >= options.nb_meta_channels /\ img[i + 1].w > options.max_chan_size

\* The condition of the break that ends the channel loops.
TooLarge(img, i, options) ==
  /\ i >= options.nb_meta_channels
  /\ \/ img[i + 1].w > options.max_chan_size
     \/ img[i + 1].h > options.max_chan_size

\* The first loop: the number of channels that will be decoded.
RECURSIVE NumChans(_, _, _)
NumChans(img, i, options) ==
  IF i >= Len(img) THEN 0
  ELSE IF EmptyChannel(img[i + 1]) THEN NumChans(img, i + 1, options)
  ELSE IF TooLarge(img, i, options) THEN 0
  ELSE 1 + NumChans(img, i + 1, options)

\* The third loop: distance_multiplier, the largest width of the channels
\* that will be decoded.
RECURSIVE DistanceMultiplier(_, _, _, _)
DistanceMultiplier(img, i, options, distance_multiplier) ==
  IF i >= Len(img) THEN distance_multiplier
  ELSE IF EmptyChannel(img[i + 1])
  THEN DistanceMultiplier(img, i + 1, options, distance_multiplier)
  ELSE IF TooLarge(img, i, options) THEN distance_multiplier
  ELSE DistanceMultiplier(img, i + 1, options,
         IF img[i + 1].w > distance_multiplier THEN img[i + 1].w
         ELSE distance_multiplier)

\* The state of a ModularDecode call: its status ("running" inside the
\* channel loop), the image, the reader, the channels handed to
\* DecodeModularChannelMAANS with the pixels each call stored, and whether
\* CheckANSFinalState was called.
ModularAcc(status, img, rd, decoded, checked) ==
  [status |-> status, image |-> img, reader |-> rd, decoded |-> decoded,
   checked |-> checked]

\* The record of one DecodeModularChannelMAANS call r on channel i: the
\* pixels it stored, whether a read was outside the bounds by then, and the
\* image, the tree and the context map the call left.
Decoded(i, r) ==
  [chan |-> i, pix |-> r.image[i + 1].pix, oob |-> r.reader.oob,
   image |-> r.image, global_tree |-> r.global_tree,
   context_map |-> r.context_map]

\* The end of the channel loop returning success whatever the final state.
ModularFinishIgnoringState(m, final_ok) ==
  ModularAcc("ok", m.image, m.reader, m.decoded, TRUE)

\* After the channel loop: CheckANSFinalState, whose answer is final_ok.
ModularFinish(m, final_ok) ==
  ModularAcc(IF final_ok THEN "ok" ELSE "failure", m.image, m.reader,
             m.decoded, TRUE)

\* The channel step without ZeroFillImage, for comparison.
ModularChannelNoZeroFill(i, m, context_map, tree, header, gid, allow_truncated_group) ==
  Bind(DecodeModularChannelMAANS(m.reader, context_map, tree, header, i, gid,
                                 m.image), LAMBDA r :
    IF allow_truncated_group /\ ~AllReadsWithinBounds(r.reader)
    THEN ModularAcc("kNotEnoughBytes", r.image, r.reader,
           Append(m.decoded, Decoded(i, r)),
           FALSE)
    ELSE ModularAcc("running", r.image, r.reader,
           Append(m.decoded, Decoded(i, r)),
           FALSE))

\* One channel of the "Read channels" loop: the channel decode, then the
\* truncated-group test.
ModularChannel(i, m, context_map, tree, header, gid, allow_truncated_group) ==
  Bind(DecodeModularChannelMAANS(m.reader, context_map, tree, header, i, gid,
                                 m.image), LAMBDA r :
    IF allow_truncated_group /\ ~AllReadsWithinBounds(r.reader)
    THEN ModularAcc("kNotEnoughBytes",
           [r.image EXCEPT ![i + 1] = ZeroFillImage(r.image[i + 1])],
           r.reader,
           Append(m.decoded, Decoded(i, r)),
           FALSE)
    ELSE ModularAcc("running", r.image, r.reader,
           Append(m.decoded, Decoded(i, r)),
           FALSE))

RECURSIVE ModularChannelLoop(_, _, _, _, _, _, _, _, _)
ModularChannelLoop(i, m, options, context_map, tree, header, gid, allow_truncated_group, final_ok) ==
  IF m.status # "running" THEN m
  ELSE IF i >= Len(m.image) THEN ModularFinish(m, final_ok)
  ELSE IF EmptyChannel(m.image[i + 1])
  THEN ModularChannelLoop(i + 1, m, options, context_map, tree, header, gid,
                          allow_truncated_group, final_ok)
  ELSE IF TooLarge(m.image, i, options) THEN ModularFinish(m, final_ok)
  ELSE Bind(ModularChannel(i, m, context_map, tree, header, gid,
                           allow_truncated_group), LAMBDA n :
         ModularChannelLoop(i + 1, n, options, context_map, tree, header,
                            gid, allow_truncated_group, final_ok))

\* What a ModularDecode call read from br before the channel loop, where it
\* left br, and the header and the tree it decoded the channels with.
ModularRead(read, br, header, tree) ==
  [read |-> read, br |-> br, header |-> header, tree |-> tree]

\* ModularDecode(br, image, header, group_id, options, global_tree,
\* global_code, global_ctx_map, allow_truncated_group) for a header without
\* transforms; rd is the ANSSymbolReader on br for global_code.
ModularDecode(br, rd, img, gid, options, tree, context_map, allow_truncated_group, final_ok) ==
  IF Len(img) < 1
  THEN ModularAcc("ok", img, rd, <<>>, FALSE) @@ ModularRead(<<>>, br, <<>>, <<>>)
  ELSE Bind(BundleRead(br), LAMBDA h :
    IF ~h.ok
    THEN ModularAcc("failure", img, rd, <<>>, FALSE)
           @@ ModularRead(<<>>, br, <<>>, <<>>)
    ELSE IF NumChans(img, options.skipchannels, options) = 0
    THEN ModularAcc("ok", img, rd, <<>>, FALSE)
           @@ ModularRead(<<"header">>, h.br, h.value, <<>>)
    ELSE IF ~h.value.use_global_tree
    THEN Bind(DecodeTree(h.br), LAMBDA t :
           IF ~t.ok
           THEN ModularAcc("failure", img, rd, <<>>, FALSE)
                  @@ ModularRead(<<"header">>, h.br, h.value, <<>>)
           ELSE Bind(DecodeHistograms(t.br, (Len(t.tree) + 1) \div 2),
                     LAMBDA c :
                  IF ~c.ok
                  THEN ModularAcc("failure", img, rd, <<>>, FALSE)
                         @@ ModularRead(<<"header", "tree">>, t.br, h.value,
                                        t.tree)
                  ELSE ModularChannelLoop(options.skipchannels,
                         ModularAcc("running", img,
                                    SymbolReader(c.code, c.br,
                                      DistanceMultiplier(img,
                                        options.skipchannels, options, 0)),
                                    <<>>, FALSE),
                         options, c.code.context_map, t.tree,
                         h.value.wp_header, gid, allow_truncated_group,
                         final_ok)
                         @@ ModularRead(<<"header", "tree", "histograms">>,
                                        c.br, h.value, t.tree)))
    ELSE IF tree = <<>>
    THEN ModularAcc("failure", img, rd, <<>>, FALSE)
           @@ ModularRead(<<"header">>, h.br, h.value, <<>>)
    ELSE ModularChannelLoop(options.skipchannels,
           ModularAcc("running", img,
                      [distance_multiplier |->
                         DistanceMultiplier(img, options.skipchannels,
                                            options, 0)] @@ rd,
                      <<>>, FALSE),
           options, context_map, tree, h.value.wp_header, gid,
           allow_truncated_group, final_ok)
           @@ ModularRead(<<"header">>, h.br, h.value, tree))

\* Status::IsFatalError(): a failure, unlike kNotEnoughBytes, is fatal.
IsFatalError(status) == status = "failure"

\* ModularGenericDecompress(br, image, header, group_id, options,
\* undo_transforms, tree, code, ctx_map, allow_truncated_group) for a header
\* without transforms: the ModularDecode call dec, the status returned and
\* whether image.undo_transforms was called.  error is image.error as
\* image.undo_transforms leaves it.
ModularGenericDecompressSuccess(br, rd, img, gid, options, tree, context_map, allow_truncated_group, final_ok, error) ==
  Bind(ModularDecode(br, rd, img, gid, options, tree, context_map,
                     allow_truncated_group, final_ok), LAMBDA r :
    IF IsFatalError(r.status)
    THEN [dec |-> r, returned |-> r.status, undo_transforms |-> FALSE]
    ELSE [dec |-> r, returned |-> IF error THEN "failure" ELSE "ok",
          undo_transforms |-> TRUE])

ModularGenericDecompress(br, rd, img, gid, options, tree, context_map, allow_truncated_group, final_ok, error) ==
  Bind(ModularDecode(br, rd, img, gid, options, tree, context_map,
                     allow_truncated_group, final_ok), LAMBDA r :
    IF IsFatalError(r.status)
    THEN [dec |-> r, returned |-> r.status, undo_transforms |-> FALSE]
    ELSE IF error
    THEN [dec |-> r, returned |-> "failure", undo_transforms |-> TRUE]
    ELSE [dec |-> r, returned |-> r.status, undo_transforms |-> TRUE])

---------------------------------------------------------------------------
(* GatherTreeData: the sampling decision *)

\* A uint64_t as its bits, the most significant first.
WordBits == 64

Bits4(d) == <<(d \div 8) % 2, (d \div 4) % 2, (d \div 2) % 2, d % 2>>

\* The word written with the hexadecimal digits d.
Hex(d) ==
  [i \in 1..(4 * Len(d)) |-> Bits4(d[((i - 1) \div 4) + 1])[((i - 1) % 4) + 1]]

ZeroWord == [i \in 1..WordBits |-> 0]

\* std::numeric_limits<uint64_t>::max()
MaxWord == [i \in 1..WordBits |-> 1]

\* The word with the bits f, held as an array of values.
Word(f) == SubSeq(f, 1, WordBits)

\* a ^ b, a << n, a >> n
Xor(a, b) == Word([i \in 1..WordBits |-> (a[i] + b[i]) % 2])
ShiftLeft(a, n) == Word([i \in 1..WordBits |-> IF i + n <= WordBits THEN a[i + n] ELSE 0])
ShiftRight(a, n) == Word([i \in 1..WordBits |-> IF i - n >= 1 THEN a[i - n] ELSE 0])

\* The carry into bit i of a + b: a lower bit where both have a 1, with
\* exactly one 1 at every bit in between.
Carry(a, b, i) ==
  \E j \in (i + 1)..WordBits :
    /\ a[j] + b[j] = 2
    /\ \A k \in (i + 1)..(j - 1) : a[k] + b[k] = 1

\* a + b modulo 2^64
Add(a, b) ==
  Word([i \in 1..WordBits |->
          (a[i] + b[i] + (IF Carry(a, b, i) THEN 1 ELSE 0)) % 2])

\* a <= b: where a has a 1 and b a 0, b has a 1 and a a 0 further up.
LessOrEqual(a, b) ==
  \A i \in 1..WordBits :
    a[i] > b[i] => \E j \in 1..(i - 1) : a[j] < b[j]

\* uint64_t s[2] = {0x94D049BB133111EBull, 0xBF58476D1CE4E5B9ull}
kSeed ==
  << Hex(<<9, 4, 13, 0, 4, 9, 11, 11, 1, 3, 3, 1, 1, 1, 14, 11>>),
     Hex(<<11, 15, 5, 8, 4, 7, 6, 13, 1, 12, 14, 4, 14, 5, 11, 9>>) >>

\* The lambda use_sample on the generator state s: the new state, the
\* generator's output and the decision.
use_sample(s, threshold) ==
  Bind(Add(s[1], s[2]), LAMBDA bits :
    Bind(Xor(s[1], ShiftLeft(s[1], 23)), LAMBDA s1 :
      [s |-> << s[2],
                Xor(s1, Xor(s[2], Xor(ShiftRight(s1, 18),
                                      ShiftRight(s[2], 5)))) >>,
       bits |-> bits,
       sample |-> LessOrEqual(ShiftRight(bits, 32), threshold)]))

\* A fraction num / den of small naturals (options.nb_repeats, pixel_fraction).
Fraction(num, den) == [num |-> num, den |-> den]

FractionLess(a, b) == a.num * b.den < b.num * a.den
FractionMin(a, b) == IF FractionLess(b, a) THEN b ELSE a
FractionMax(a, b) == IF FractionLess(a, b) THEN b ELSE a

\* The floor of the number of samples per channel below which every pixel
\* is sampled.
kMinSamples == 1024

\* pixel_fraction of GatherTreeData for a w x h channel.
PixelFraction(nb_repeats, w, h) ==
  Bind(FractionMin(Fraction(1, 1), nb_repeats), LAMBDA pixel_fraction :
    IF pixel_fraction.num > 0
    THEN FractionMax(pixel_fraction,
           FractionMin(Fraction(1, 1), Fraction(kMinSamples, w * h)))
    ELSE pixel_fraction)

\* threshold = (max >> 32) * pixel_fraction, for the fractions 0 and 1 / 2^j,
\* which are the ones the channels of the model yield.
Threshold(pixel_fraction) ==
  IF pixel_fraction.num = 0 THEN ZeroWord
  ELSE ShiftRight(ShiftRight(MaxWord, 32),
                  FloorLog2Nonzero(pixel_fraction.den \div pixel_fraction.num))

---------------------------------------------------------------------------
(* GatherTreeData and LearnTree *)

\* ModularOptions as far as GatherTreeData reads them.
GatherOptions(nb_repeats, max_properties) ==
  [nb_repeats |-> nb_repeats, max_properties |-> max_properties]

\* TreeSamples: the configured predictors and the samples added.
TreeSamples(predictors, samples) ==
  [predictors |-> predictors, samples |-> samples]

NumPredictors(tree_samples) == Len(tree_samples.predictors)
PredictorFromIndex(tree_samples, i) == tree_samples.predictors[i + 1]
HasSamples(tree_samples) == Len(tree_samples.samples) > 0
NumSamples(tree_samples) == Len(tree_samples.samples)

\* TreeSamples::AddSample(pixel, properties, predictions)
AddSample(tree_samples, pixel, properties, pred) ==
  TreeSamples(tree_samples.predictors,
    Append(tree_samples.samples,
           [pixel |-> pixel, properties |-> properties, pred |-> pred]))

\* The progress of a GatherTreeData call: the TreeSamples, *total_pixels,
\* the weighted-predictor state, the generator state s and the decisions
\* use_sample returned so far.
GatherAcc(tree_samples, total_pixels, wp, s, decisions) ==
  [tree_samples |-> tree_samples, total_pixels |-> total_pixels, wp |-> wp,
   s |-> s, decisions |-> decisions]

\* PredictLearn / PredictLearnAll: the guess of every configured predictor,
\* p being the result of the weighted predictor's Predict.
LearnPredictions(tree_samples, ch, x, y, p) ==
  [i \in 1..NumPredictors(tree_samples) |->
     IF tree_samples.predictors[i] = "Weighted" THEN p.guess
     ELSE PredictNoTreeNoWP(ch, x, y, tree_samples.predictors[i])]

\* The body of the pixel loop with a decision that looks at the pixel: only
\* positive pixels are sampled.  For comparison.
GatherPixelByValue(img, c, sp, x, y, threshold, num_props, a) ==
  Bind(WPPredictAt(a.wp, img[c + 1], x, y), LAMBDA p :
    Bind(use_sample(a.s, IF At(img[c + 1], x, y) > 0 THEN threshold
                         ELSE ZeroWord), LAMBDA u :
      GatherAcc(
        IF u.sample
        THEN AddSample(a.tree_samples, At(img[c + 1], x, y),
               Properties(img, c, x, y, sp, num_props, p.property),
               LearnPredictions(a.tree_samples, img[c + 1], x, y, p))
        ELSE a.tree_samples,
        a.total_pixels + 1,
        WPUpdateErrors(p.state, At(img[c + 1], x, y), x, y, img[c + 1].w),
        u.s,
        Append(a.decisions, u.sample))))

\* The body of the pixel loop: the predictions and properties, the count,
\* the sampling decision and the error update.
GatherPixel(img, c, sp, x, y, threshold, num_props, a) ==
  Bind(WPPredictAt(a.wp, img[c + 1], x, y), LAMBDA p :
    Bind(use_sample(a.s, threshold), LAMBDA u :
      GatherAcc(
        IF u.sample
        THEN AddSample(a.tree_samples, At(img[c + 1], x, y),
               Properties(img, c, x, y, sp, num_props, p.property),
               LearnPredictions(a.tree_samples, img[c + 1], x, y, p))
        ELSE a.tree_samples,
        a.total_pixels + 1,
        WPUpdateErrors(p.state, At(img[c + 1], x, y), x, y, img[c + 1].w),
        u.s,
        Append(a.decisions, u.sample))))

\* The two nested loops over y and x: the pixels lo .. hi - 1 in raster
\* order, the first half before the second.
RECURSIVE GatherLoop(_, _, _, _, _, _, _, _)
GatherLoop(img, c, sp, lo, hi, threshold, num_props, a) ==
  IF hi <= lo THEN a
  ELSE IF hi = lo + 1
  THEN GatherPixel(img, c, sp, lo % img[c + 1].w, lo \div img[c + 1].w,
                   threshold, num_props, a)
  ELSE Bind(GatherLoop(img, c, sp, lo, (lo + hi) \div 2, threshold,
                       num_props, a),
            LAMBDA b : GatherLoop(img, c, sp, (lo + hi) \div 2, hi,
                                  threshold, num_props, b))

\* GatherTreeData(image, chan, group_id, wp_header, options, tree_samples,
\* total_pixels)
GatherTreeData(img, c, gid, header, options, tree_samples, total_pixels) ==
  GatherLoop(img, c, <<c, gid>>, 0, img[c + 1].w * img[c + 1].h,
    Threshold(PixelFraction(options.nb_repeats, img[c + 1].w, img[c + 1].h)),
    kNumNonrefProperties + kExtraPropsPerChannel * options.max_properties,
    GatherAcc(tree_samples, total_pixels,
              WPInit(header, img[c + 1].w, img[c + 1].h), kSeed, <<>>))

\* The tree LearnTree returns when there are samples although the pass was
\* configured without any.  For comparison.
LearnTreeGrowing(tree_samples, total_pixels, grown) == grown

\* LearnTree(tree_samples, total_pixels, options); grown is the tree
\* ComputeBestTree leaves when it is run.
LearnTree(tree_samples, total_pixels, grown) ==
  IF ~HasSamples(tree_samples)
  THEN <<Leaf(0, PredictorFromIndex(tree_samples, 0), 0, 1)>>
  ELSE grown

---------------------------------------------------------------------------
(* ModularEncode *)

\* ModularOptions as far as ModularEncode and the functions it calls read
\* them; predictors are the predictors SetPredictor configures.
EncodeOptions(skipchannels, max_chan_size, nb_meta_channels, nb_repeats, predictors) ==
  Options(skipchannels, max_chan_size, nb_meta_channels)
    @@ GatherOptions(nb_repeats, 0) @@ [predictors |-> predictors]

\* What a ModularEncode call returns and leaves: the writer, *header,
\* *tree_samples and *total_pixels, the tree the channels were encoded
\* with, *tokens, *width and the channels encoded; gathered is set by
\* ModularEncode to the channels GatherTreeData was called on.
EncodeResult(status, writer, header, tree_samples, total_pixels, tree, toks, width, channels) ==
  [status |-> status, writer |-> writer, header |-> header,
   tree_samples |-> tree_samples, total_pixels |-> total_pixels,
   tree |-> tree, tokens |-> toks, width |-> width, channels |-> channels,
   gathered |-> <<>>]

\* The loop of GatherTreeData calls over the channels.
RECURSIVE GatherChannels(_, _, _, _, _, _)
GatherChannels(img, i, gid, header, options, acc) ==
  IF i >= Len(img) THEN acc
  ELSE IF EmptyChannel(img[i + 1])
  THEN GatherChannels(img, i + 1, gid, header, options, acc)
  ELSE IF TooLarge(img, i, options) THEN acc
  ELSE Bind(GatherTreeData(img, i, gid, header.wp_header, options,
                           acc.tree_samples, acc.total_pixels), LAMBDA r :
         GatherChannels(img, i + 1, gid, header, options,
                        [gathered |-> Append(acc.gathered, i)] @@ r))

\* The progress of the loop of EncodeModularChannelMAANS calls.
ChannelsAcc(status, toks, image_width, channels) ==
  [status |-> status, tokens |-> toks, image_width |-> image_width,
   channels |-> channels]

\* The loop of EncodeModularChannelMAANS calls over the channels.
RECURSIVE EncodeChannels(_, _, _, _, _, _, _, _)
EncodeChannels(img, i, header, tree, gid, options, debug, acc) ==
  IF acc.status # "ok" \/ i >= Len(img) THEN acc
  ELSE IF EmptyChannel(img[i + 1])
  THEN EncodeChannels(img, i + 1, header, tree, gid, options, debug, acc)
  ELSE IF TooLarge(img, i, options) THEN acc
  ELSE Bind(EncodeModularChannelMAANS(img, i, header.wp_header, tree,
                                      acc.tokens, gid, debug), LAMBDA r :
         EncodeChannels(img, i + 1, header, tree, gid, options, debug,
           ChannelsAcc(r.status, r.tokens,
                       Max(acc.image_width, img[i + 1].w),
                       Append(acc.channels, i))))

\* The code BuildAndEncodeHistograms builds for num_contexts contexts: the
\* identity context map, or every context clustered into one.
Code(clustering, ans_single, num_contexts) ==
  [context_map |-> [i \in 1..num_contexts |->
                      IF clustering = "identity" THEN i - 1 ELSE 0],
   ans_single |-> ans_single]

\* The tree written after the channel data, for comparison.
EncodeLocalTreeLast(img, options, writer, layer, gid, header, g, grown, code, debug) ==
  Bind(TokenizeTree(LearnTree(g.tree_samples, g.total_pixels, grown)),
       LAMBDA t :
    Bind(EncodeChannels(img, options.skipchannels, header, t.decoded_tree,
                        gid, options, debug, ChannelsAcc("ok", <<>>, 0, <<>>)),
         LAMBDA e :
      Bind(Code(code.clustering, code.ans_single,
                (Len(t.decoded_tree) + 1) \div 2), LAMBDA data_code :
        Bind(Code("identity", FALSE, Len(TreeContexts)), LAMBDA tree_code :
          IF e.status # "ok"
          THEN EncodeResult(e.status, writer, header, g.tree_samples,
                            g.total_pixels, t.decoded_tree, e.tokens, 0,
                            e.channels)
          ELSE EncodeResult("ok",
                 WriteTokens(t.tokens, tree_code.context_map,
                   BuildAndEncodeHistograms(Len(TreeContexts), tree_code,
                     WriteTokens(e.tokens, data_code.context_map,
                       BuildAndEncodeHistograms(
                         (Len(t.decoded_tree) + 1) \div 2, data_code,
                         writer, layer),
                       layer),
                     "kLayerModularTree"),
                   "kLayerModularTree"),
                 header, g.tree_samples, g.total_pixels, t.decoded_tree,
                 e.tokens, 0, e.channels)))))

\* ModularEncode without a tree given, after the data were gathered into
\* its own TreeSamples (g): LearnTree, TokenizeTree, the tree written, the
\* channels encoded into tokens_storage[0], the data written.  grown is the
\* tree ComputeBestTree leaves, code what BuildAndEncodeHistograms chooses
\* for the data.
EncodeLocal(img, options, writer, layer, gid, header, g, grown, code, debug) ==
  Bind(TokenizeTree(LearnTree(g.tree_samples, g.total_pixels, grown)),
       LAMBDA t :
    IF Len(t.decoded_tree) # Len(LearnTree(g.tree_samples, g.total_pixels,
                                           grown))
    THEN EncodeResult("abort", writer, header, g.tree_samples,
                      g.total_pixels, t.decoded_tree, <<>>, 0, <<>>)
    ELSE
    Bind(Code("identity", FALSE, Len(TreeContexts)), LAMBDA tree_code :
      Bind(WriteTokens(t.tokens, tree_code.context_map,
             BuildAndEncodeHistograms(Len(TreeContexts), tree_code, writer,
                                      "kLayerModularTree"),
             "kLayerModularTree"), LAMBDA w :
        Bind(EncodeChannels(img, options.skipchannels, header,
                            t.decoded_tree, gid, options, debug,
                            ChannelsAcc("ok", <<>>, 0, <<>>)), LAMBDA e :
          Bind(Code(code.clustering, code.ans_single,
                    (Len(t.decoded_tree) + 1) \div 2), LAMBDA data_code :
            IF e.status # "ok"
            THEN EncodeResult(e.status, w, header, g.tree_samples,
                              g.total_pixels, t.decoded_tree, e.tokens, 0,
                              e.channels)
            ELSE EncodeResult("ok",
                   WriteTokens(e.tokens, data_code.context_map,
                     BuildAndEncodeHistograms(
                       (Len(t.decoded_tree) + 1) \div 2, data_code, w,
                       layer),
                     layer),
                   header, g.tree_samples, g.total_pixels, t.decoded_tree,
                   e.tokens, 0, e.channels))))))

\* ModularEncode with the tree given: the channels encoded into *tokens,
\* nothing written, *width set.
EncodeGlobal(img, options, writer, gid, header, total_pixels, tree, toks, debug) ==
  Bind(EncodeChannels(img, options.skipchannels, header, tree, gid, options,
                      debug, ChannelsAcc("ok", toks, 0, <<>>)), LAMBDA e :
    EncodeResult(e.status, writer, header, <<>>, total_pixels, tree,
                 e.tokens, IF e.status = "ok" THEN e.image_width ELSE 0,
                 e.channels))

\* ModularEncode(image, options, writer, aux_out, layer, group_id,
\* tree_samples, total_pixels, tree, header, tokens, width) for an image
\* without transforms.  A null pointer is <<>>: tree_samples and toks are
\* <<>> or a sequence of the one object pointed to, tree is <<>> or the
\* tree.  error is image.error, wp_header what PredictorMode sets.
ModularEncode(img, error, options, writer, layer, gid, tree_samples, total_pixels, tree, wp_header, toks, grown, code, debug) ==
  IF error
  THEN EncodeResult("failure", writer, <<>>, <<>>, total_pixels, tree, <<>>,
                    0, <<>>)
  ELSE IF Len(img) < 1
  THEN EncodeResult("ok", writer, <<>>, <<>>, total_pixels, tree, <<>>, 0,
                    <<>>)
  ELSE
  Bind(GroupHeader(tree # <<>>, wp_header), LAMBDA header :
    Bind(IF tree_samples = <<>> /\ tree = <<>>
         THEN BundleWrite(header, writer, layer) ELSE writer, LAMBDA w :
      IF tree = <<>> /\ tree_samples # <<>>
      THEN Bind(GatherChannels(img, options.skipchannels, gid, header,
                  options, [tree_samples |-> tree_samples[1],
                            total_pixels |-> total_pixels,
                            gathered |-> <<>>]), LAMBDA g :
             [EncodeResult("ok", w, header, g.tree_samples, g.total_pixels,
                           <<>>, <<>>, 0, <<>>)
                EXCEPT !.gathered = g.gathered])
      ELSE IF (tree = <<>>) # (toks = <<>>)
      THEN EncodeResult("abort", w, header, <<>>, total_pixels, tree, <<>>,
                        0, <<>>)
      ELSE IF tree = <<>>
      THEN Bind(GatherChannels(img, options.skipchannels, gid, header,
                  options,
                  [tree_samples |-> TreeSamples(options.predictors, <<>>),
                   total_pixels |-> total_pixels, gathered |-> <<>>]),
                LAMBDA g :
             [EncodeLocal(img, options, w, layer, gid, header, g, grown,
                          code, debug)
                EXCEPT !.gathered = g.gathered])
      ELSE EncodeGlobal(img, options, w, gid, header, total_pixels, tree,
                        toks[1], debug)))

---------------------------------------------------------------------------
(* Inputs *)

\* Pixel values of the coded images: small enough that no residual of the
\* encoder leaves pixel_type, large enough that the weighted predictor's
\* property leaves [-kWPPropRange, kWPPropRange); and a small value, whose
\* token is below kSingleValueLimit.
PixelAmplitude == 2 ^ (PixelBits - 3) + 2 ^ (PixelBits - 5)
PixelVals == {-PixelAmplitude, 2, PixelAmplitude}

\* Symbols of an arbitrary stream: a small one, and two whose unpacked value
\* lies below and above pixel_type.
SymVals == {3, 2 ^ (PixelBits + 1) - 1, 2 ^ (PixelBits + 1)}

Patterns(vals) == [1..PatLen -> vals]

\* The w x h channel whose pixels repeat pat in raster order.
PatternChannel(w, h, pat) ==
  Channel(w, h, [k \in 1..(w * h) |-> Cyc(pat, k - 1)])

ZeroChannel(w, h) == Channel(w, h, [k \in 1..(w * h) |-> 0])

\* The channels coded: every pattern of PixelVals (all even), and one with
\* an odd value, which a multiplier of 2 does not divide.
Images ==
  { <<PatternChannel(MaxW, MaxH, pat)>> :
      pat \in Patterns(PixelVals) \cup {<<3, -PixelAmplitude>>} }

RECURSIVE NumLeaves(_, _)
NumLeaves(tree, i) ==
  IF i > Len(tree) THEN 0
  ELSE (IF tree[i].property = -1 THEN 1 ELSE 0) + NumLeaves(tree, i + 1)

\* Context maps for a tree: the identity and the map clustering every
\* context into one.
ContextMaps(tree) ==
  LET n == NumLeaves(tree, 1)
  IN { [i \in 1..n |-> i - 1], [i \in 1..n |-> 0] }

\* A context map that is not the identity and clusters nothing: the
\* contexts in reverse order.
ReverseContextMap(tree) ==
  LET n == NumLeaves(tree, 1) IN [i \in 1..n |-> n - i]

ClusterTokens(toks, context_map) ==
  [i \in 1..Len(toks) |-> Token(context_map[toks[i].ctx + 1], toks[i].value)]

None == <<>>

---------------------------------------------------------------------------
(* Tree specification: FilterTree and the lookup tables on generated trees *)

InitCommon ==
  /\ pc = "start"
  /\ filtered = None
  /\ enc_lookup = None
  /\ dec_lookup = None
  /\ image = None
  /\ tokens = <<>>
  /\ enc = None
  /\ reader = None
  /\ dec_image = None
  /\ dec = None
  /\ mdec = None
  /\ learn = None
  /\ frame = None
  /\ corpus = None

\* global_tree: a single leaf, or a tree of 1..MaxInner decision nodes
\* labelled by a configuration of TreeConfigs.
InitTree ==
  /\ InitCommon
  /\ \/ global_tree \in SingleLeafTrees({LeafW, LeafZ, LeafWBig})
     \/ \E k \in 1..MaxInner, c \in TreeConfigs :
          \E s \in ShapesN(k), P \in [1..k -> TreeProps \cup {c.static}] :
            global_tree = BuildTree(s, 0, 0, 0, 0, P, c.S, c.L)
  /\ \E sp \in {<<0, 1>>, <<1, 0>>} : chan = sp[1] /\ group_id = sp[2]

\* FilterTree(global_tree, static_props, &num_props, &use_wp, &wp_only)
ApplyFilterTree ==
  /\ pc = "start"
  /\ pc' = "filtered"
  /\ filtered' = FilterTree(global_tree, <<chan, group_id>>)
  /\ UNCHANGED <<global_tree, chan, group_id, enc_lookup, dec_lookup, image,
                 tokens, enc, reader, dec_image, dec, mdec, learn,
                 frame, corpus>>

\* The encoder's construction of context_lookup from the filtered tree.
ApplyEncLookup ==
  /\ pc = "filtered"
  /\ pc' = "enc_lookup"
  /\ enc_lookup' = EncContextLookup(filtered)
  /\ UNCHANGED <<global_tree, chan, group_id, filtered, dec_lookup, image,
                 tokens, enc, reader, dec_image, dec, mdec, learn,
                 frame, corpus>>

\* The decoder's replacement of the context ids and its construction of
\* context_lookup / multipliers / offsets.
ApplyDecLookup ==
  /\ pc = "filtered"
  /\ pc' = "dec_lookup"
  /\ LET cm == ReverseContextMap(global_tree)
         ft == DecFilterTree(global_tree, <<chan, group_id>>, cm)
         l == DecContextLookup(ft)
     IN dec_lookup' = [ok |-> l.ok, table |-> l.table, ft |-> ft,
                       context_map |-> cm]
  /\ UNCHANGED <<global_tree, chan, group_id, filtered, enc_lookup, image,
                 tokens, enc, reader, dec_image, dec, mdec, learn,
                 frame, corpus>>

NextTree == ApplyFilterTree \/ ApplyEncLookup \/ ApplyDecLookup

SpecTree == InitTree /\ [][NextTree]_vars

---------------------------------------------------------------------------
(* Channel specification: one channel encoded and decoded, or decoded from
   an arbitrary symbol stream *)

\* global_tree: a single leaf of any leaf scheme, a tree of
\* 1..MaxCodecInner decision nodes labelled by a configuration of
\* CodecConfigs, or none (tree == nullptr: the tree is still to be
\* learned).  The token vector already holds a token of an earlier channel.
Init ==
  /\ pc = "start"
  /\ filtered = None
  /\ enc_lookup = None
  /\ dec_lookup = None
  /\ image = None
  /\ tokens = <<Token(0, 1)>>
  /\ enc = None
  /\ reader = None
  /\ dec_image = None
  /\ dec = None
  /\ mdec = None
  /\ learn = None
  /\ frame = None
  /\ corpus = None
  /\ chan = 0
  /\ group_id = 0
  /\ \/ global_tree = <<>>
     \/ global_tree \in SingleLeafTrees({LeafW, LeafWOff, LeafWMul, LeafWBig,
                                         LeafZ, LeafG, LeafG2, LeafG3,
                                         LeafGOff, LeafZMul})
     \/ \E k \in 1..MaxCodecInner, c \in CodecConfigs :
          \E s \in ShapesN(k), P \in [1..k -> CodecProps] :
            global_tree = BuildTree(s, 0, 0, 0, 0, P, c.S, c.L)

\* EncodeModularChannelMAANS on an image of Images, in a build with
\* (debug) or without JXL_DASSERT.  A failed assertion aborts the process.
\* The trees an encoder is given have leaf offsets small against the range
\* of pixel_type, so that no residual of these images leaves pixel_type;
\* the trees with an offset of 200 are decoded only.
Encode ==
  /\ pc = "start"
  /\ global_tree # <<>>
  /\ \A i \in 1..Len(global_tree) : ~OffsetOutsideInt8(global_tree[i])
  /\ \E img \in Images, header \in WPHeaders, debug \in BOOLEAN :
       \E r \in {EncodeModularChannelMAANS(img, chan, header, global_tree,
                                           tokens, group_id, debug)} :
          /\ image' = img
          /\ enc' = [status |-> r.status, track |-> r.track, wp |-> r.wp,
                     before |-> r.before, header |-> header,
                     debug |-> debug]
          /\ tokens' = r.tokens
          /\ pc' = IF r.status = "ok" THEN "encoded" ELSE "aborted"
  /\ UNCHANGED <<global_tree, chan, group_id, filtered, enc_lookup,
                 dec_lookup, reader, dec_image, dec, mdec, learn,
                 frame, corpus>>

\* The tokens this channel's encoding appended.
Appended(before, after) == SubSeq(after, Len(before) + 1, Len(after))

\* DecodeModularChannelMAANS on the tokens the encoder appended, delivered
\* per clustered context, into a channel of the same size.
Decode ==
  /\ pc = "encoded"
  /\ \E cm \in ContextMaps(global_tree) :
       \E rd \in {NewReader("tokens",
                     ClusterTokens(Appended(enc.before, tokens), cm), <<>>,
                     image[chan + 1].w * image[chan + 1].h, TRUE)} :
       \E r \in {DecodeModularChannelMAANS(rd, cm, global_tree, enc.header,
                    chan, group_id,
                    <<ZeroChannel(image[chan + 1].w, image[chan + 1].h)>>)} :
          /\ reader' = rd
          /\ dec_image' = r.image
          /\ dec' = [status |-> r.status, track |-> r.track,
                     reader |-> r.reader, log |-> r.log, wp |-> r.wp,
                     context_map |-> cm, header |-> enc.header]
  /\ pc' = "decoded"
  /\ UNCHANGED <<global_tree, chan, group_id, filtered, enc_lookup,
                 dec_lookup, image, tokens, enc, mdec, learn, frame, corpus>>

\* DecodeModularChannelMAANS on an arbitrary symbol stream.
DecodeStream ==
  /\ pc = "start"
  /\ global_tree # <<>>
  /\ \E pat \in Patterns(SymVals), cm \in ContextMaps(global_tree),
        header \in WPHeaders, ans_single \in BOOLEAN :
       \E rd \in {NewReader("pattern", <<>>, pat, MaxW * MaxH,
                             ans_single)} :
       \E r \in {DecodeModularChannelMAANS(rd, cm, global_tree, header,
                    chan, group_id, <<ZeroChannel(MaxW, MaxH)>>)} :
          /\ reader' = rd
          /\ dec_image' = r.image
          /\ dec' = [status |-> r.status, track |-> r.track,
                     reader |-> r.reader, log |-> r.log, wp |-> r.wp,
                     context_map |-> cm, header |-> header]
  /\ pc' = "stream_decoded"
  /\ UNCHANGED <<global_tree, chan, group_id, filtered, enc_lookup,
                 dec_lookup, image, tokens, enc, mdec, learn, frame, corpus>>

\* The channels a learning pass runs over: the small images, and one whose
\* channel has more than 2 * kMinSamples pixels.
GatherW == 64
GatherH == 33

LargeImage == <<PatternChannel(GatherW, GatherH, <<2, -PixelAmplitude, 2>>)>>

\* The GatherTreeData calls of the model: the image, options.nb_repeats and
\* the predictors the TreeSamples are configured with.
GatherCall(img, nb_repeats, predictors) ==
  [img |-> img, nb_repeats |-> nb_repeats, predictors |-> predictors]

GatherCalls ==
  { GatherCall(img, nb, preds) :
      img \in Images,
      nb \in {Fraction(0, 1), Fraction(1, 2), Fraction(2, 1)},
      preds \in {<<"Gradient">>, <<"Zero", "Weighted">>} }
  \cup
  { GatherCall(LargeImage, nb, <<"Gradient">>) :
      nb \in {Fraction(0, 1), Fraction(1, 2)} }

\* What one GatherTreeData call r did to TreeSamples that held n samples.
GatherPass(r, n) ==
  [decisions |-> r.decisions, wp |-> r.wp,
   added |-> SubSeq(r.tree_samples.samples, n + 1,
                    Len(r.tree_samples.samples))]

\* GatherTreeData on a channel into empty TreeSamples.
Gather ==
  /\ pc = "start"
  /\ global_tree = <<>>
  /\ \E call \in GatherCalls, header \in WPHeaders :
       \E options \in {GatherOptions(call.nb_repeats, 0)} :
       \E r \in {GatherTreeData(call.img, chan, group_id, header, options,
                                 TreeSamples(call.predictors, <<>>), 0)} :
          /\ image' = call.img
          /\ learn' = [options |-> options, header |-> header,
                       tree_samples |-> r.tree_samples,
                       total_pixels |-> r.total_pixels,
                       passes |-> <<GatherPass(r, 0)>>,
                       tree |-> None]
  /\ pc' = "gathered"
  /\ UNCHANGED <<global_tree, chan, group_id, filtered, enc_lookup,
                 dec_lookup, tokens, enc, reader, dec_image, dec, mdec,
                 frame, corpus>>

\* A second GatherTreeData call on the same channel with the same options,
\* into the TreeSamples the first call filled.
GatherAgain ==
  /\ pc = "gathered"
  /\ \E r \in {GatherTreeData(image, chan, group_id, learn.header,
                               learn.options, learn.tree_samples,
                               learn.total_pixels)} :
       learn' = [learn EXCEPT
                   !.tree_samples = r.tree_samples,
                   !.total_pixels = r.total_pixels,
                   !.passes = Append(@,
                     GatherPass(r, NumSamples(learn.tree_samples)))]
  /\ pc' = "gathered_again"
  /\ UNCHANGED <<global_tree, chan, group_id, filtered, enc_lookup,
                 dec_lookup, image, tokens, enc, reader, dec_image, dec,
                 mdec, frame, corpus>>

\* The trees ComputeBestTree may leave: a leaf with any configured
\* predictor, or a decision on a property with two such leaves.
GrownTrees(tree_samples) ==
  { <<Leaf(0, tree_samples.predictors[i], 0, 1)>> :
      i \in 1..NumPredictors(tree_samples) }
  \cup
  { <<Decision(kPropW, 0, 1, 2),
      Leaf(0, tree_samples.predictors[1], 0, 1),
      Leaf(1, tree_samples.predictors[NumPredictors(tree_samples)], 0, 1)>> }

\* LearnTree on the TreeSamples gathered.
Learn ==
  /\ pc \in {"gathered", "gathered_again"}
  /\ \E grown \in GrownTrees(learn.tree_samples) :
       learn' = [learn EXCEPT
                   !.tree = LearnTree(learn.tree_samples, learn.total_pixels,
                                      grown)]
  /\ pc' = "learned"
  /\ UNCHANGED <<global_tree, chan, group_id, filtered, enc_lookup,
                 dec_lookup, image, tokens, enc, reader, dec_image, dec,
                 mdec, frame, corpus>>

Next == Encode \/ Decode \/ DecodeStream \/ Gather \/ GatherAgain \/ Learn

Spec == Init /\ [][Next]_vars

---------------------------------------------------------------------------
(* Group specification: ModularDecode on an image of several channels and a
   symbol stream that may end early *)

\* Channels of ModularImages: decodable, empty, and wider than
\* options.max_chan_size.
ModularShape(kind) ==
  CASE kind = "plain" -> ZeroChannel(MaxW - 1, MaxH - 1)
    [] kind = "empty" -> ZeroChannel(0, MaxH - 1)
    [] kind = "large" -> ZeroChannel(MaxW, MaxH - 1)

\* The image without channels, and images of MaxChans channels of which at
\* most one, the first or the second, is empty or large.
ModularImages ==
  {<<>>} \cup
  { [i \in 1..MaxChans |-> ModularShape(IF i = e THEN kind ELSE "plain")] :
      e \in 0..2, kind \in {"empty", "large"} }

ModularOptions ==
  { Options(sm[1], MaxW - 1, sm[2]) : sm \in {<<0, 0>>, <<0, 1>>, <<1, 0>>} }

\* The stream ends inside the k-th plain channel, or not at all.
ModularAvail ==
  { (MaxW - 1) * (MaxH - 1) * k + 2 : k \in 0..(MaxChans - 1) }
    \cup { MaxChans * MaxW * MaxH }

\* Streams starting with a small symbol, constant or not.
ModularPatterns ==
  { [i \in 1..PatLen |-> IF i = 1 THEN 3 ELSE v] : v \in SymVals }

\* The global tree: absent, a single leaf, or one decision.
ModularTrees ==
  {<<>>} \cup SingleLeafTrees({LeafZ, LeafG, LeafW}) \cup
  { BuildTree(s, 0, 0, 0, 0, [i \in 1..1 |-> kPropW], SplitsMid, LeafZG) :
      s \in ShapesN(1) }

InitModular ==
  /\ pc = "start"
  /\ filtered = None
  /\ enc_lookup = None
  /\ dec_lookup = None
  /\ image = None
  /\ tokens = <<>>
  /\ enc = None
  /\ reader = None
  /\ dec_image = None
  /\ dec = None
  /\ mdec = None
  /\ learn = None
  /\ frame = None
  /\ corpus = None
  /\ chan = 0
  /\ group_id = 0
  /\ global_tree \in ModularTrees

\* ModularGenericDecompress, and in it ModularDecode, with the global tree;
\* the image is or is not flagged in error when its transforms are undone.
ModularDecodeGroup ==
  /\ pc = "start"
  /\ \E img \in ModularImages, options \in ModularOptions,
        avail \in ModularAvail, pat \in ModularPatterns,
        header \in WPHeaders, cm \in ContextMaps(global_tree),
        ans_single \in BOOLEAN, allow_truncated_group \in BOOLEAN,
        final_ok \in BOOLEAN, error \in BOOLEAN :
       \E rd \in {NewReader("pattern", <<>>, pat, avail, ans_single)} :
       \E g \in {ModularGenericDecompress(
                     BitReader(<<Section("header", "group",
                                         GroupHeader(TRUE, header))>>, avail),
                     rd, img, group_id, options, global_tree, cm,
                     allow_truncated_group, final_ok, error)} :
       \E r \in {g.dec} :
          /\ image' = img
          /\ reader' = rd
          /\ dec_image' = r.image
          /\ mdec' = [status |-> r.status, decoded |-> r.decoded,
                      checked |-> r.checked, reader |-> r.reader,
                      options |-> options,
                      allow_truncated_group |-> allow_truncated_group,
                      final_ok |-> final_ok, context_map |-> cm,
                      returned |-> g.returned,
                      undo_transforms |-> g.undo_transforms,
                      error |-> error]
  /\ pc' = "group_decoded"
  /\ UNCHANGED <<global_tree, chan, group_id, filtered, enc_lookup,
                 dec_lookup, tokens, enc, dec, learn, frame, corpus>>

NextModular == ModularDecodeGroup

SpecModular == InitModular /\ [][NextModular]_vars

---------------------------------------------------------------------------
(* Sampler specification: the pixel loop of GatherTreeData one pixel at a
   time, on a channel of zero pixels *)

\* The use_sample calls followed in one behaviour.
MaxCalls == 48

\* A position in the pixel loop on a w x h channel: the next pixel (x, y)
\* and the generator state s before its use_sample call.
LoopPosition(w, h, x, y, s) == [w |-> w, h |-> h, x |-> x, y |-> y, s |-> s]

\* The start of the loop.
LoopStart(w, h) == LoopPosition(w, h, 0, 0, kSeed)

\* The loop on a 4360 x 794633 channel before pixel (4318, 794632): s is
\* kSeed after the 794632 * 4360 + 4318 = 3464599838 use_sample calls of the
\* pixels before it, s[0] = 0x73B16F860ED8127E and s[1] = 0xFBD7842090C1B9BB.
\* With threshold 0 none of these calls returns true.
LateLoopPosition ==
  LoopPosition(4360, 794633, 4318, 794632,
    << Hex(<<7, 3, 11, 1, 6, 15, 8, 6, 0, 14, 13, 8, 1, 2, 7, 14>>),
       Hex(<<15, 11, 13, 7, 8, 4, 2, 0, 9, 0, 12, 1, 11, 9, 11, 11>>) >>)

\* The loops followed: from the start on a MaxW x MaxH and on a
\* GatherW x GatherH channel with nb_repeats 0, 1/2 and 2, and from
\* LateLoopPosition with nb_repeats 0.
SamplerRuns ==
  { [at |-> LoopStart(d[1], d[2]), nb_repeats |-> nb] :
      d \in {<<MaxW, MaxH>>, <<GatherW, GatherH>>},
      nb \in {Fraction(0, 1), Fraction(1, 2), Fraction(2, 1)} }
  \cup {[at |-> LateLoopPosition, nb_repeats |-> Fraction(0, 1)]}

\* learn.at is the loop position, learn.calls the use_sample calls made in
\* the model; *total_pixels is at.y * at.w + at.x.
InitSampler ==
  /\ pc = "sampling"
  /\ filtered = None
  /\ enc_lookup = None
  /\ dec_lookup = None
  /\ image = None
  /\ tokens = <<>>
  /\ enc = None
  /\ reader = None
  /\ dec_image = None
  /\ dec = None
  /\ mdec = None
  /\ frame = None
  /\ corpus = None
  /\ chan = 0
  /\ group_id = 0
  /\ global_tree = <<>>
  /\ \E run \in SamplerRuns :
       learn = [options |-> GatherOptions(run.nb_repeats, 0),
                threshold |-> IF run.nb_repeats.num = 0 THEN ZeroWord
                              ELSE Threshold(PixelFraction(run.nb_repeats,
                                                           run.at.w,
                                                           run.at.h)),
                at |-> run.at,
                calls |-> 0,
                bits |-> None,
                tree_samples |-> TreeSamples(<<"Gradient">>, <<>>),
                tree |-> None]

\* One iteration of the loop over x, and the step of the loop over y after
\* the last pixel of a row: (*total_pixels)++, use_sample and AddSample of
\* the pixel, its properties (channel, group, y, x) and its prediction.
SamplePixel ==
  /\ pc = "sampling"
  /\ learn.at.y < learn.at.h
  /\ learn.calls < MaxCalls
  /\ \E u \in {use_sample(learn.at.s, learn.threshold)} :
       learn' = [learn EXCEPT
                   !.at = LoopPosition(@.w, @.h,
                            IF @.x + 1 < @.w THEN @.x + 1 ELSE 0,
                            IF @.x + 1 < @.w THEN @.y ELSE @.y + 1,
                            u.s),
                   !.calls = @ + 1,
                   !.bits = u.bits,
                   !.tree_samples =
                     IF u.sample
                     THEN AddSample(@, 0,
                            <<chan, group_id, learn.at.y, learn.at.x>>, <<0>>)
                     ELSE @]
  /\ UNCHANGED <<pc, global_tree, chan, group_id, filtered, enc_lookup,
                 dec_lookup, image, tokens, enc, reader, dec_image, dec,
                 mdec, frame, corpus>>

\* LearnTree after the loop over y has ended.
LearnSampled ==
  /\ pc = "sampling"
  /\ learn.at.y = learn.at.h
  /\ \E grown \in GrownTrees(learn.tree_samples) :
       learn' = [learn EXCEPT
                   !.tree = LearnTree(learn.tree_samples,
                                      <<learn.at.y, learn.at.w>>, grown)]
  /\ pc' = "sampled"
  /\ UNCHANGED <<global_tree, chan, group_id, filtered, enc_lookup,
                 dec_lookup, image, tokens, enc, reader, dec_image, dec,
                 mdec, frame, corpus>>

NextSampler == SamplePixel \/ LearnSampled

SpecSampler == InitSampler /\ [][NextSampler]_vars

---------------------------------------------------------------------------
(* Stream specification: ModularEncode on an image of several channels, and
   ModularDecode on what a stand-alone ModularEncode wrote *)

\* Channels of StreamImages: decodable, empty (and higher than
\* options.max_chan_size), wider and higher than options.max_chan_size.
StreamShape(kind, pat) ==
  CASE kind = "plain" -> PatternChannel(MaxW - 1, MaxH - 1, pat)
    [] kind = "empty" -> ZeroChannel(0, MaxH)
    [] kind = "large" -> PatternChannel(MaxW, MaxH - 1, pat)
    [] kind = "tall" -> PatternChannel(MaxW - 2, MaxH, pat)

StreamPatterns == {<<2, 2>>, <<2, -PixelAmplitude>>}

\* The image without channels, and images of MaxChans channels of which at
\* most one, the first or the second, is empty, wide or tall.
StreamImages ==
  {<<>>} \cup
  { [i \in 1..MaxChans |-> StreamShape(IF i = e THEN kind ELSE "plain", pat)] :
      e \in 0..2, kind \in {"empty", "large"}, pat \in StreamPatterns }
  \cup
  { [i \in 1..MaxChans |-> StreamShape(IF i = e THEN "tall" ELSE "plain",
                                       <<2, 2>>)] : e \in 1..2 }

\* Options without learning and one predictor, or with every pixel sampled
\* and two predictors.
StreamOptions ==
  { EncodeOptions(sm[1], MaxW - 1, sm[2], l[1], l[2]) :
      sm \in {<<0, 0>>, <<0, 1>>, <<1, 0>>},
      l \in {<<Fraction(0, 1), <<"Gradient">>>>,
             <<Fraction(2, 1), <<"Zero", "Weighted">>>>} }

\* What BuildAndEncodeHistograms may choose for the data.
StreamCodes ==
  {[clustering |-> "identity", ans_single |-> TRUE],
   [clustering |-> "one", ans_single |-> FALSE]}

\* The trees a caller hands to ModularEncode: none, a single leaf, or one
\* decision.
StreamTrees ==
  {<<>>} \cup SingleLeafTrees({LeafG}) \cup
  { BuildTree(s, 0, 0, 0, 0, [i \in 1..1 |-> kPropW], SplitsMid, LeafZG) :
      s \in ShapesN(1) }

InitStream ==
  /\ InitCommon
  /\ chan = 0
  /\ group_id = 0
  /\ global_tree \in StreamTrees

\* The layer the caller accounts the group to.
GroupLayer == "kLayerModularGlobal"

\* ModularEncode in each of its modes: tree_samples and tokens given or
\* not, the tree given or not.
ModularEncodeGroup ==
  /\ pc = "start"
  /\ \E img \in StreamImages, options \in StreamOptions,
        header \in WPHeaders, error \in BOOLEAN,
        samples_given \in BOOLEAN, tokens_given \in BOOLEAN,
        code \in StreamCodes :
       \E grown \in GrownTrees(TreeSamples(options.predictors, <<>>)) :
       \E tree_samples \in {IF samples_given
                             THEN <<TreeSamples(options.predictors, <<>>)>>
                             ELSE <<>>},
          toks \in {IF tokens_given THEN <<tokens>> ELSE <<>>} :
       \E r \in {ModularEncode(img, error, options, <<>>, GroupLayer,
                                group_id, tree_samples, 0, global_tree,
                                header, toks, grown, code, TRUE)} :
          /\ image' = img
          /\ enc' = r @@ [options |-> options, error |-> error,
                          tree_samples_given |-> samples_given,
                          tokens_given |-> tokens_given,
                          tree_given |-> global_tree # <<>>,
                          code |-> code]
          /\ tokens' = IF tokens_given THEN r.tokens ELSE tokens
  /\ pc' = "group_encoded"
  /\ UNCHANGED <<global_tree, chan, group_id, filtered, enc_lookup,
                 dec_lookup, reader, dec_image, dec, mdec, learn,
                 frame, corpus>>

\* The call wrote its own header, tree and data.
StandAlone == ~enc.tree_samples_given /\ ~enc.tree_given /\ ~enc.tokens_given

\* The number of symbols of the data: the stream ends after two of them,
\* or not at all.
StreamAvail(toks) == {2, Len(toks) + 1}

\* ModularGenericDecompress, and in it ModularDecode, on what a stand-alone
\* ModularEncode wrote, into an image of channels of the same sizes.
ModularDecodeStream ==
  /\ pc = "group_encoded"
  /\ StandAlone
  /\ enc.status = "ok"
  /\ \E avail \in StreamAvail(enc.tokens),
        allow_truncated_group \in BOOLEAN, final_ok \in BOOLEAN :
       \E img \in {[i \in 1..Len(image) |->
                      ZeroChannel(image[i].w, image[i].h)]} :
       \E g \in {ModularGenericDecompress(BitReader(enc.writer, avail),
                     NewReader("tokens", <<>>, <<>>, avail, FALSE), img,
                     group_id, enc.options, <<>>, <<>>,
                     allow_truncated_group, final_ok, FALSE)} :
       \E r \in {g.dec} :
          /\ dec_image' = r.image
          /\ mdec' = [status |-> r.status, decoded |-> r.decoded,
                      checked |-> r.checked, reader |-> r.reader,
                      options |-> enc.options,
                      allow_truncated_group |-> allow_truncated_group,
                      final_ok |-> final_ok, context_map |-> <<>>,
                      returned |-> g.returned,
                      undo_transforms |-> g.undo_transforms,
                      read |-> r.read, br |-> r.br, header |-> r.header,
                      tree |-> r.tree, avail |-> avail]
  /\ pc' = "group_read"
  /\ UNCHANGED <<global_tree, chan, group_id, filtered, enc_lookup,
                 dec_lookup, image, tokens, enc, reader, dec, learn,
                 frame, corpus>>

NextStream == ModularEncodeGroup \/ ModularDecodeStream

SpecStream == InitStream /\ [][NextStream]_vars

---------------------------------------------------------------------------
(* Frame specification: FinalizeFrameDecoding with the rects run on a pool *)

\* Largest number of rects in rects_to_process.
MaxRects == 3

\* Largest number of workers of the pool.
MaxThreads == 2

\* A rect is the sequence of the statuses ApplyImageFeaturesRow returns for
\* its rows.
Rects ==
  {<<TRUE, TRUE>>, <<TRUE, FALSE>>, <<FALSE, TRUE>>, <<FALSE, FALSE>>}

\* frame_header as FinalizeFrameDecoding reads it after the pool has run.
FrameHeaders ==
  [color_transform : {"kXYB", "kNone", "kYCbCr"}, upsampling : {1, 2},
   save_before_color_transform : BOOLEAN]

\* FinalizeImageRect: the loop over y, left at the first row that fails.
RECURSIVE FinalizeImageRect(_, _)
FinalizeImageRect(rect, y) ==
  IF y > Len(rect) THEN TRUE
  ELSE IF ~rect[y] THEN FALSE
  ELSE FinalizeImageRect(rect, y + 1)

\* run_apply_features(rect_id, thread): the value of apply_features_ok after
\* the call.
run_apply_features_assigning(apply_features_ok, rect) ==
  FinalizeImageRect(rect, 1)

run_apply_features(apply_features_ok, rect) ==
  IF ~FinalizeImageRect(rect, 1) THEN FALSE ELSE apply_features_ok

\* The steps of FinalizeFrameDecoding after the test of apply_features_ok.
AfterFeatures(frame_header) ==
  (IF /\ frame_header.color_transform = "kYCbCr"
      /\ ~frame_header.save_before_color_transform
   THEN {"YcbcrToRgb"} ELSE {})
  \cup (IF frame_header.upsampling # 1 THEN {"UpsampleRect"} ELSE {})
  \cup (IF /\ frame_header.color_transform = "kXYB"
           /\ frame_header.upsampling # 1
           /\ ~frame_header.save_before_color_transform
        THEN {"OpsinToLinearInplace"} ELSE {})

\* FinalizeFrameDecoding has filled rects_to_process and is about to call
\* RunOnPool; apply_features_ok is true.  task[t] is the rect worker t is
\* running (0: none), finished the rects in the order their calls ended.
InitFrame ==
  /\ pc = "pool"
  /\ global_tree = <<>>
  /\ chan = 0
  /\ group_id = 0
  /\ filtered = None
  /\ enc_lookup = None
  /\ dec_lookup = None
  /\ image = None
  /\ tokens = <<>>
  /\ enc = None
  /\ reader = None
  /\ dec_image = None
  /\ dec = None
  /\ mdec = None
  /\ learn = None
  /\ corpus = None
  /\ \E n \in 0..MaxRects, num_threads \in 1..MaxThreads,
        frame_header \in FrameHeaders :
       \E rects_to_process \in [1..n -> Rects] :
         frame = [frame_header |-> frame_header,
                  rects_to_process |-> rects_to_process,
                  todo |-> 1..n,
                  task |-> [t \in 1..num_threads |-> 0],
                  finished |-> <<>>,
                  apply_features_ok |-> TRUE,
                  returned |-> None,
                  ran |-> {}]

\* A worker of the pool takes a rect that no worker has taken.
WorkerTakes ==
  /\ pc = "pool"
  /\ \E t \in DOMAIN frame.task, rect_id \in frame.todo :
       /\ frame.task[t] = 0
       /\ frame' = [frame EXCEPT !.task[t] = rect_id,
                                 !.todo = @ \ {rect_id}]
  /\ UNCHANGED <<pc, global_tree, chan, group_id, filtered, enc_lookup,
                 dec_lookup, image, tokens, enc, reader, dec_image, dec,
                 mdec, learn, corpus>>

\* A worker runs run_apply_features on the rect it has taken.
WorkerRuns ==
  /\ pc = "pool"
  /\ \E t \in DOMAIN frame.task :
       /\ frame.task[t] # 0
       /\ frame' = [frame EXCEPT
                      !.apply_features_ok =
                        run_apply_features(
                          @, frame.rects_to_process[frame.task[t]]),
                      !.finished = Append(@, frame.task[t]),
                      !.task[t] = 0]
  /\ UNCHANGED <<pc, global_tree, chan, group_id, filtered, enc_lookup,
                 dec_lookup, image, tokens, enc, reader, dec_image, dec,
                 mdec, learn, corpus>>

\* RunOnPool has returned: every rect has been run.  FinalizeFrameDecoding
\* tests apply_features_ok and returns, or runs the remaining steps.
FinalizeFrameDecoding ==
  /\ pc = "pool"
  /\ frame.todo = {}
  /\ \A t \in DOMAIN frame.task : frame.task[t] = 0
  /\ frame' = IF ~frame.apply_features_ok
              THEN [frame EXCEPT !.returned = "failure"]
              ELSE [frame EXCEPT !.returned = "ok",
                                 !.ran = AfterFeatures(frame.frame_header)]
  /\ pc' = "returned"
  /\ UNCHANGED <<global_tree, chan, group_id, filtered, enc_lookup,
                 dec_lookup, image, tokens, enc, reader, dec_image, dec,
                 mdec, learn, corpus>>

NextFrame == WorkerTakes \/ WorkerRuns \/ FinalizeFrameDecoding

SpecFrame == InitFrame /\ [][NextFrame]_vars

---------------------------------------------------------------------------
(* Corpus specification: GenerateFile on an output directory *)

\* The GenerateFile calls followed in one behaviour.
MaxFiles == 2

\* hex_chars
hex_chars ==
  <<"0", "1", "2", "3", "4", "5", "6", "7", "8", "9", "a", "b", "c", "d",
    "e", "f">>

\* A byte of the checksum of an ImageSpec; the model's checksum is one byte.
Checksums == {0, 15, 16, 30, 171}

\* hash_str for the checksum: hex_chars[checksum[i] >> 4] and
\* hex_chars[checksum[i] % 0x0f]
hash_str(checksum) ==
  <<hex_chars[(checksum \div 16) + 1], hex_chars[(checksum % 15) + 1]>>

OutputFns == { hash_str(checksum) : checksum \in Checksums }

\* stat(output_fn, &st) == 0 && S_ISREG(st.st_mode), on the directory dir
\* that gives for each output_fn "none", "regular" or "directory".
IsRegularFile(dir, output_fn) == dir[output_fn] = "regular"

\* GenerateFile(output_dir, spec, regenerate).  convert, encode and write
\* are the results of ConvertImage, EncodeFile and WriteFile.  The result is
\* the value returned, the directory after the call and what was run.
GenerateFile(dir, checksum, regenerate, convert, encode, write) ==
  Bind(hash_str(checksum), LAMBDA output_fn :
    IF ~regenerate /\ IsRegularFile(dir, output_fn)
    THEN [returned |-> TRUE, dir |-> dir, output_fn |-> output_fn,
          ran |-> "stat"]
    ELSE IF ~convert
    THEN [returned |-> FALSE, dir |-> dir, output_fn |-> output_fn,
          ran |-> "ConvertImage"]
    ELSE IF ~encode
    THEN [returned |-> FALSE, dir |-> dir, output_fn |-> output_fn,
          ran |-> "EncodeFile"]
    ELSE IF ~write
    THEN [returned |-> (1 # 0), dir |-> dir, output_fn |-> output_fn,
          ran |-> "WriteFile"]
    ELSE [returned |-> TRUE, dir |-> [dir EXCEPT ![output_fn] = "regular"],
          output_fn |-> output_fn, ran |-> "Stored"])

\* The output directory is empty, or holds a directory under the name of a
\* file to generate.
InitCorpus ==
  /\ pc = "corpus"
  /\ global_tree = <<>>
  /\ chan = 0
  /\ group_id = 0
  /\ filtered = None
  /\ enc_lookup = None
  /\ dec_lookup = None
  /\ image = None
  /\ tokens = <<>>
  /\ enc = None
  /\ reader = None
  /\ dec_image = None
  /\ dec = None
  /\ mdec = None
  /\ learn = None
  /\ frame = None
  /\ \E taken \in {{}, {hash_str(171)}} :
       corpus = [dir |-> [fn \in OutputFns |->
                            IF fn \in taken THEN "directory" ELSE "none"],
                 calls |-> 0,
                 last |-> None]

\* One call of GenerateFile.  WriteFile fails on a path that is a directory.
GenerateOne ==
  /\ pc = "corpus"
  /\ corpus.calls < MaxFiles
  /\ \E checksum \in Checksums, regenerate \in BOOLEAN, convert \in BOOLEAN,
        encode \in BOOLEAN, write \in BOOLEAN :
       /\ write => corpus.dir[hash_str(checksum)] # "directory"
       /\ \E r \in {GenerateFile(corpus.dir, checksum, regenerate, convert,
                                 encode, write)} :
            corpus' = [dir |-> r.dir,
                       calls |-> corpus.calls + 1,
                       last |-> [checksum |-> checksum,
                                 regenerate |-> regenerate,
                                 convert |-> convert, encode |-> encode,
                                 write |-> write,
                                 before |-> corpus.dir[r.output_fn],
                                 output_fn |-> r.output_fn,
                                 returned |-> r.returned, ran |-> r.ran]]
  /\ UNCHANGED <<pc, global_tree, chan, group_id, filtered, enc_lookup,
                 dec_lookup, image, tokens, enc, reader, dec_image, dec,
                 mdec, learn, frame>>

NextCorpus == GenerateOne

SpecCorpus == InitCorpus /\ [][NextCorpus]_vars

---------------------------------------------------------------------------
(* Properties of FilterTree *)

TreeFiltered == pc \in {"filtered", "enc_lookup", "dec_lookup"}

FlatDecisions(ft) == { i \in 1..Len(ft) : ft[i].property0 # -1 }

IsStatic(p) == p >= 0 /\ p < kNumStaticProperties

\* The slot of a flat decision node that holds the dummy decision written
\* for a child that is a leaf: property 0, splitval 0, and two copies of the
\* same leaf in the two positions the decision selects between.
IsDummySlot(ft, i, j) ==
  LET first == ft[i].childID + 2 * (j - 1) + 1
  IN /\ ft[i].properties[j] = 0
     /\ ft[i].splitvals[j] = 0
     /\ first + 1 <= Len(ft)
     /\ ft[first].property0 = -1
     /\ ft[first] = ft[first + 1]

\* C7 as stated: no decision node of the FlatTree returned by FilterTree
\* holds a static property index in property0, properties[0] or
\* properties[1].
C7_NoStaticIndex ==
  TreeFiltered =>
    \A i \in FlatDecisions(filtered.tree) :
      /\ ~IsStatic(filtered.tree[i].property0)
      /\ \A j \in 1..2 : ~IsStatic(filtered.tree[i].properties[j])

\* C7 amended: property0 of a decision node of the FlatTree returned by
\* FilterTree is never a static property, and properties[0], properties[1]
\* are either non-static or the dummy decision (property 0, splitval 0) whose
\* two outcomes are copies of one leaf, so that the outcome of the FlatTree
\* never depends on a static property.
C7_NoStaticDecision ==
  TreeFiltered =>
    \A i \in FlatDecisions(filtered.tree) :
      /\ ~IsStatic(filtered.tree[i].property0)
      /\ \A j \in 1..2 :
           \/ ~IsStatic(filtered.tree[i].properties[j])
           \/ IsDummySlot(filtered.tree, i, j)

\* A tree whose root tests a static property and is skipped, leaving a
\* decision node with a real second-level decision and a dummy one.
C7_Witness ==
  /\ TreeFiltered
  /\ IsStatic(global_tree[1].property)
  /\ \E i \in FlatDecisions(filtered.tree) :
       /\ IsDummySlot(filtered.tree, i, 1)
       /\ ~IsStatic(filtered.tree[i].properties[2])

TestedProperties(ft) ==
  UNION { {ft[i].property0, ft[i].properties[1], ft[i].properties[2]} :
          i \in FlatDecisions(ft) }

\* C8: num_props returned by FilterTree is strictly greater than every
\* property index tested by the FlatTree, is at least kNumNonrefProperties,
\* exceeds it by a multiple of kExtraPropsPerChannel, and is the smallest
\* such value.
C8_NumProps ==
  TreeFiltered =>
    LET np == filtered.num_props
        tested == TestedProperties(filtered.tree)
    IN /\ \A p \in tested : np > p
       /\ np >= kNumNonrefProperties
       /\ (np - kNumNonrefProperties) % kExtraPropsPerChannel = 0
       /\ \/ np = kNumNonrefProperties
          \/ \E p \in tested : np - kExtraPropsPerChannel <= p

\* A FlatTree testing a property of a reference channel: num_props is
\* rounded up past kNumNonrefProperties.
C8_Witness ==
  /\ TreeFiltered
  /\ kNumNonrefProperties \in TestedProperties(filtered.tree)
  /\ filtered.num_props = kNumNonrefProperties + kExtraPropsPerChannel

\* Traversal of the original tree: value > splitval goes to lchild,
\* otherwise to rchild.
RECURSIVE TreeLookup(_, _, _)
TreeLookup(tree, props, pos) ==
  LET n == tree[pos + 1]
  IN IF n.property = -1 THEN n
     ELSE IF props[n.property] > n.splitval
     THEN TreeLookup(tree, props, n.lchild)
     ELSE TreeLookup(tree, props, n.rchild)

\* The split values of a tree and their successors: one value on each side
\* of every decision.
SplitNeighbourhood(tree) ==
  UNION { {tree[i].splitval, tree[i].splitval + 1} :
          i \in { j \in 1..Len(tree) : tree[j].property # -1 } }

\* Property vectors over the properties the generated trees test, with the
\* static slots holding sp.
PropertyVectors(tree, sp) ==
  { [p \in (0..(kNumStaticProperties - 1)) \cup TreeProps |->
       IF p < kNumStaticProperties THEN sp[p + 1]
       ELSE IF p = kWPProp THEN v[1] ELSE v[2]] :
    v \in SplitNeighbourhood(tree) \X SplitNeighbourhood(tree) }

SameLeaf(flat, n) ==
  /\ flat.property0 = -1
  /\ flat.predictor = n.predictor
  /\ flat.predictor_offset = n.predictor_offset
  /\ flat.multiplier = n.multiplier
  /\ flat.childID = n.lchild

\* C19: for every tree, static property assignment and property vector with
\* that assignment in its static slots, traversing the FlatTree returned by
\* FilterTree reaches a leaf with the predictor, predictor_offset,
\* multiplier and context id of the leaf that traversing the original tree
\* reaches.
C19_FilterPreservesLookup ==
  TreeFiltered =>
    \A props \in PropertyVectors(global_tree, <<chan, group_id>>) :
      SameLeaf(MATreeLookup(filtered.tree, props, 0),
               TreeLookup(global_tree, props, 0))

\* A tree whose root tests a static property, filtered to a flat tree with
\* a second-level decision, in which two property vectors reach leaves of
\* different contexts.
C19_Witness ==
  /\ TreeFiltered
  /\ IsStatic(global_tree[1].property)
  /\ filtered.tree[1].property0 # -1
  /\ \E j \in 1..2 : filtered.tree[1].properties[j] >= kNumStaticProperties
  /\ \E p, q \in PropertyVectors(global_tree, <<chan, group_id>>) :
       MATreeLookup(filtered.tree, p, 0).childID
         # MATreeLookup(filtered.tree, q, 0).childID

\* Flat slot i (counted from 0) holds original node o, o being a node that
\* tests no static property: a leaf slot is the leaf; a decision slot has
\* the node's decision, a childID beyond i with four slots in the output,
\* and per side either the child's decision with the child's two children
\* in the two slots, or the dummy decision with the leaf in both slots.
RECURSIVE Layout(_, _, _, _, _)
LayoutSide(ft, tree, sp, i, o, j) ==
  LET child == IF j = 1 THEN tree[o + 1].lchild ELSE tree[o + 1].rchild
      c == SkipStatic(tree, child, sp)
      first == ft[i + 1].childID + 2 * (j - 1)
  IN IF tree[c + 1].property = -1
     THEN /\ ft[i + 1].properties[j] = 0
          /\ ft[i + 1].splitvals[j] = 0
          /\ ft[first + 1] = ft[first + 2]
          /\ Layout(ft, tree, sp, first, c)
          /\ Layout(ft, tree, sp, first + 1, c)
     ELSE /\ ft[i + 1].properties[j] = tree[c + 1].property
          /\ ft[i + 1].splitvals[j] = tree[c + 1].splitval
          /\ Layout(ft, tree, sp, first,
                    SkipStatic(tree, tree[c + 1].lchild, sp))
          /\ Layout(ft, tree, sp, first + 1,
                    SkipStatic(tree, tree[c + 1].rchild, sp))

Layout(ft, tree, sp, i, o) ==
  IF tree[o + 1].property = -1
  THEN SameLeaf(ft[i + 1], tree[o + 1])
  ELSE /\ ft[i + 1].property0 = tree[o + 1].property
       /\ ft[i + 1].splitval0 = tree[o + 1].splitval
       /\ ft[i + 1].childID > i
       /\ ft[i + 1].childID + 3 < Len(ft)
       /\ LayoutSide(ft, tree, sp, i, o, 1)
       /\ LayoutSide(ft, tree, sp, i, o, 2)

\* C20: every decision node at index i of FilterTree's output has
\* childID > i, the slots childID .. childID+3 exist and hold the (>,>),
\* (>,<=), (<=,>), (<=,<=) grandchildren in this order, and a side whose
\* child is a leaf has the dummy decision (property 0, splitval 0) and two
\* identical copies of the leaf.
C20_ChildLayout ==
  TreeFiltered =>
    /\ \A i \in FlatDecisions(filtered.tree) :
         /\ filtered.tree[i].childID > i - 1
         /\ filtered.tree[i].childID + 3 < Len(filtered.tree)
    /\ Layout(filtered.tree, global_tree, <<chan, group_id>>, 0,
              SkipStatic(global_tree, 0, <<chan, group_id>>))

\* A flat tree with two decision nodes, the second below the first, one
\* side of the root being a leaf under a dummy decision.
C20_Witness ==
  /\ TreeFiltered
  /\ Cardinality(FlatDecisions(filtered.tree)) >= 2
  /\ filtered.tree[1].property0 # -1
  /\ \E j \in 1..2 : IsDummySlot(filtered.tree, 1, j)
  /\ \E j \in 1..2 : filtered.tree[1].properties[j] >= kNumStaticProperties

---------------------------------------------------------------------------
(* Properties of the lookup tables *)

WPPropValues == (-kWPPropRange)..(kWPPropRange - 1)

\* The properties a WP-only flat tree can test: the static ones and the
\* weighted-predictor property with value v.
PropsWithWP(sp, v) ==
  [p \in (0..(kNumStaticProperties - 1)) \cup {kWPProp} |->
     IF p = kWPProp THEN v ELSE sp[p + 1]]

\* The lookup-table entry for v agrees with the leaf of ft reached by
\* traversal for v; withLeaf also compares the multiplier and the offset.
TableAgrees(ft, table, sp, v, withLeaf) ==
  LET leaf == MATreeLookup(ft, PropsWithWP(sp, v), 0)
      e == TableAt(table, v)
  IN /\ e.ctx = leaf.childID
     /\ withLeaf => /\ e.multiplier = leaf.multiplier
                    /\ e.offset = leaf.predictor_offset

EncTableBuilt == pc = "enc_lookup" /\ enc_lookup.ok
DecTableBuilt == pc = "dec_lookup" /\ dec_lookup.ok

\* Every split of the flat tree from node pos lies strictly inside the
\* interval (lo, hi] of property values that reach its decision.
RECURSIVE ConsistentSplits(_, _, _, _)
ConsistentSplits(ft, pos, lo, hi) ==
  LET n == ft[pos + 1]
      inside(v, l, h) == l < v /\ v < h
  IN IF n.property0 = -1 THEN TRUE
     ELSE /\ inside(n.splitval0, lo, hi)
          /\ IF n.properties[1] >= kNumStaticProperties
             THEN /\ inside(n.splitvals[1], n.splitval0, hi)
                  /\ ConsistentSplits(ft, n.childID, n.splitvals[1], hi)
                  /\ ConsistentSplits(ft, n.childID + 1, n.splitval0,
                                      n.splitvals[1])
             ELSE ConsistentSplits(ft, n.childID, n.splitval0, hi)
          /\ IF n.properties[2] >= kNumStaticProperties
             THEN /\ inside(n.splitvals[2], lo, n.splitval0)
                  /\ ConsistentSplits(ft, n.childID + 2, n.splitvals[2],
                                      n.splitval0)
                  /\ ConsistentSplits(ft, n.childID + 3, lo, n.splitvals[2])
             ELSE ConsistentSplits(ft, n.childID + 2, lo, n.splitval0)

Consistent(ft) ==
  ConsistentSplits(ft, 0, -(2 * kWPPropRange), 2 * kWPPropRange)

---------------------------------------------------------------------------
(* Properties of ModularDecode *)

GroupDecoded == pc = "group_decoded"

\* The calls of DecodeModularChannelMAANS after which the bit reader had
\* read outside its bounds.
TruncatedCalls == { k \in 1..Len(mdec.decoded) : mdec.decoded[k].oob }

AllZero(ch) == \A i \in 1..(ch.w * ch.h) : ch.pix[i] = 0

\* C6: in ModularDecode with allow_truncated_group set, when the bit reader
\* has read outside its bounds after a channel was decoded, that channel's
\* plane is zero-filled, it is the last channel decoded, the final ANS state
\* is not checked, the status is kNotEnoughBytes, the channels decoded before
\* it hold the values decoded into them, and the channels after it are as
\* they were.
C6_TruncatedGroup ==
  GroupDecoded /\ mdec.allow_truncated_group /\ TruncatedCalls # {} =>
    LET k == CHOOSE n \in TruncatedCalls : \A j \in TruncatedCalls : n <= j
        c == mdec.decoded[k].chan
    IN /\ mdec.status = "kNotEnoughBytes"
       /\ AllZero(dec_image[c + 1])
       /\ Len(mdec.decoded) = k
       /\ ~mdec.checked
       /\ \A j \in 1..(k - 1) :
            dec_image[mdec.decoded[j].chan + 1].pix = mdec.decoded[j].pix
       /\ \A i \in (c + 2)..Len(image) : dec_image[i] = image[i]

\* The stream ends inside the second channel decoded: the first keeps
\* non-zero values, the second had non-zero values before the zero-fill, and
\* a non-empty channel follows.
C6_Witness ==
  /\ GroupDecoded
  /\ mdec.allow_truncated_group
  /\ Len(mdec.decoded) = 2
  /\ mdec.decoded[2].oob
  /\ ~mdec.decoded[1].oob
  /\ \E i \in DOMAIN mdec.decoded[2].pix : mdec.decoded[2].pix[i] # 0
  /\ ~AllZero(dec_image[mdec.decoded[1].chan + 1])
  /\ mdec.status = "kNotEnoughBytes"
  /\ \E i \in (mdec.decoded[2].chan + 2)..Len(image) :
       ~EmptyChannel(image[i])

---------------------------------------------------------------------------
(* Properties of the channel codec *)

Encoded == pc \in {"encoded", "decoded"}
ChannelDecoded == pc \in {"decoded", "stream_decoded"}

\* The encoder's general tree-traversal track on the channel encoded.
EncGeneral ==
  Bind(FilterTree(global_tree, <<chan, group_id>>), LAMBDA ft :
    EncRunTrack(EncTrackAlwaysTree(ft, None), image, chan, enc.header, ft,
                None, <<chan, group_id>>, enc.before, enc.debug))

\* The decoder's general traversal track with weighted-predictor state, on
\* the reader and the channel the decode started from.
DecGeneral ==
  Bind(DecFilterTree(global_tree, <<chan, group_id>>, dec.context_map),
       LAMBDA ft :
    DecodeWith("tree_wp", reader, ft, None, dec.header, chan, group_id,
               <<ZeroChannel(dec_image[chan + 1].w, dec_image[chan + 1].h)>>))

EncFastTracks == {"wp_lookup", "zero", "shift"}
DecFastTracks == {"wp_lookup", "single_value", "zero", "notree_nowp",
                  "notree_wp", "tree_nowp"}

\* C3: whenever the encoder selects a fast track, the tokens it appends are
\* the tokens the general tree-traversal track appends for the same channel
\* and tree.
C3_EncoderTracks ==
  Encoded /\ enc.track \in EncFastTracks =>
    \A g \in {EncGeneral} : g.status = "ok" => g.tokens = tokens

\* C4: every fast decode track writes the pixel values the general traversal
\* track with weighted-predictor state writes for the same tree, context map
\* and symbols.
C4_DecoderTracks ==
  ChannelDecoded /\ dec.track \in DecFastTracks =>
    DecGeneral.image = dec_image

\* C1: decoding the tokens the encoder emitted for a channel reproduces
\* every pixel of the channel.
C1_RoundTrip ==
  pc = "decoded" => dec_image[chan + 1] = image[chan + 1]

\* The exact value of a decoded pixel: the unpacked residual times the
\* multiplier, plus the leaf offset and the guess.
ExactSum(r) == UnpackSigned(r.sym) * r.multiplier + r.offset + r.guess

\* C5: in every decode track the pixel stored is the exact sum if that lies
\* in the pixel_type range and the nearest range bound otherwise, and the
\* channel decode returns success.
C5_Saturation ==
  ChannelDecoded =>
    /\ dec.status = "ok"
    /\ Len(dec.log) = Len(dec_image[chan + 1].pix)
    /\ \A i \in 1..Len(dec.log) :
         /\ dec.log[i].stored = Clamp(ExactSum(dec.log[i]), PixMin, PixMax)
         /\ dec_image[chan + 1].pix[i] = dec.log[i].stored

\* A decode with weighted-predictor state in which one exact sum lies above
\* and another below the pixel_type range.
C5_Witness ==
  /\ ChannelDecoded
  /\ dec.track \in {"tree_wp", "notree_wp", "wp_lookup"}
  /\ \E i, j \in 1..Len(dec.log) :
       /\ ExactSum(dec.log[i]) > PixMax
       /\ dec.log[i].stored = PixMax
       /\ ExactSum(dec.log[j]) < PixMin
       /\ dec.log[j].stored = PixMin

\* The token of pixel k (in raster order) in a track without
\* weighted-predictor state, which depends only on the image: that of the
\* traversal track or, where the multiplier need not divide the residual,
\* that of the shift track.
RasterToken(k) ==
  LET w == image[chan + 1].w IN
  Bind(FilterTree(global_tree, <<chan, group_id>>), LAMBDA ft :
    IF enc.track = "shift"
    THEN EncShiftPixel(image[chan + 1], ft.tree[1], FALSE, k % w, k \div w,
                       EncAcc("ok", <<>>, <<>>)).tokens[1]
    ELSE EncTreeNoWPPixel(image, chan, ft, <<chan, group_id>>, k % w,
                          k \div w, EncAcc("ok", <<>>, <<>>)).tokens[1])

\* The calls a raster-order pass makes on the weighted-predictor state.
RasterCalls ==
  LET ch == image[chan + 1]
  IN [n \in 1..(2 * ch.w * ch.h) |->
        LET k == (n - 1) \div 2
        IN IF n % 2 = 1 THEN <<"Predict", k % ch.w, k \div ch.w>>
           ELSE <<"UpdateErrors", k % ch.w, k \div ch.w, ch.pix[k + 1]>>]

\* C9: for a w x h channel the encoder appends exactly w*h tokens, the k-th
\* of them for the k-th pixel in raster order, in every track, and leaves
\* the tokens already in the vector unchanged.
C9_TokenShape ==
  Encoded =>
    LET ch == image[chan + 1]
        new == Appended(enc.before, tokens)
    IN /\ Len(tokens) = Len(enc.before) + ch.w * ch.h
       /\ SubSeq(tokens, 1, Len(enc.before)) = enc.before
       /\ IF enc.track \in {"wp_lookup", "tree_wp"}
          THEN enc.wp.calls = RasterCalls
          ELSE \A k \in 0..(ch.w * ch.h - 1) : new[k + 1] = RasterToken(k)

\* Channels with unequal pixels encoded after an earlier token, on a track
\* with and on a track without weighted-predictor state.
C9_Witness ==
  /\ Encoded
  /\ Len(enc.before) > 0
  /\ enc.track = "shift"
  /\ \E i, j \in 1..Len(image[chan + 1].pix) :
       image[chan + 1].pix[i] # image[chan + 1].pix[j]
  /\ \E i, j \in (Len(enc.before) + 1)..Len(tokens) :
       tokens[i].value # tokens[j].value

\* The flat tree of the channel is a single leaf with the Zero predictor.
SingleLeafZero ==
  \A ft \in {FilterTree(global_tree, <<chan, group_id>>)} :
    Len(ft.tree) = 1 /\ ft.tree[1].predictor = "Zero"

\* C10: decoding a single-leaf Zero-predictor tree, the decoder fills the
\* channel with one constant (the saturating UnpackSigned(value) *
\* multiplier + offset) and reads no symbol if and only if IsSingleValue
\* reports a single value, and otherwise reads exactly w*h symbols; the
\* encoder appends one token per pixel also when all pixels are equal.
C10_SingleValue ==
  /\ ChannelDecoded /\ SingleLeafZero =>
       LET leaf == global_tree[1]
           sv == IsSingleValue(reader, dec.context_map[leaf.lchild + 1])
           ch == dec_image[chan + 1]
           v == Clamp(UnpackSigned(sv.value) * leaf.multiplier
                        + leaf.predictor_offset, PixMin, PixMax)
       IN IF sv.single
          THEN /\ dec.reader.total = 0
               /\ \A i \in 1..(ch.w * ch.h) : ch.pix[i] = v
          ELSE dec.reader.total = ch.w * ch.h
  /\ Encoded /\ SingleLeafZero =>
       Len(Appended(enc.before, tokens))
         = image[chan + 1].w * image[chan + 1].h

\* A channel of equal pixels was encoded with one token per pixel and
\* decoded by the fill without a read.
C10_Witness ==
  /\ pc = "decoded"
  /\ SingleLeafZero
  /\ dec.track = "single_value"
  /\ dec.reader.total = 0
  /\ Len(Appended(enc.before, tokens)) = MaxW * MaxH
  /\ dec_image[chan + 1] = image[chan + 1]
  /\ dec_image[chan + 1].pix[1] # 0

\* The residual of pixel k (in raster order) under the single leaf of the
\* tree: the pixel minus the guess of the leaf's predictor.
ShiftResidual(k) ==
  LET ch == image[chan + 1]
  IN ch.pix[k + 1]
       - PredictNoTreeNoWP(ch, k % ch.w, k \div ch.w, global_tree[1].predictor)

C17_FinalStateFailure ==
  GroupDecoded /\ mdec.checked /\ ~mdec.final_ok =>
    /\ mdec.status = "failure"
    /\ mdec.returned = "failure"
    /\ ~mdec.undo_transforms

\* Two channels were decoded in a call that allows truncated groups, no read
\* was outside the bounds, and the final state is wrong.
C17_Witness ==
  /\ GroupDecoded
  /\ mdec.checked
  /\ ~mdec.final_ok
  /\ mdec.allow_truncated_group
  /\ Len(mdec.decoded) >= 2
  /\ \A k \in 1..Len(mdec.decoded) : ~mdec.decoded[k].oob
  /\ ~AllZero(dec_image[mdec.decoded[1].chan + 1])
  /\ mdec.returned = "failure"

\* The image before the k-th DecodeModularChannelMAANS call of the group.
ImageBefore(k) == IF k = 1 THEN image ELSE mdec.decoded[k - 1].image

\* C18: every DecodeModularChannelMAANS call of a group leaves all channels
\* but its own as they were, and leaves the global tree and the context map
\* as they were.
C18_DecodeIsolation ==
  GroupDecoded =>
    \A k \in 1..Len(mdec.decoded) :
      /\ \A i \in 1..Len(image) :
           i # mdec.decoded[k].chan + 1 =>
             mdec.decoded[k].image[i] = ImageBefore(k)[i]
      /\ mdec.decoded[k].global_tree = global_tree
      /\ mdec.decoded[k].context_map = mdec.context_map

\* A group of two decoded channels of the same size under a tree with a
\* decision node and a context map that is not the identity; both calls
\* stored non-zero pixels.
C18_Witness ==
  /\ GroupDecoded
  /\ Len(mdec.decoded) >= 2
  /\ Len(global_tree) > 1
  /\ \E i \in 1..Len(mdec.context_map) : mdec.context_map[i] # i - 1
  /\ \A k \in 1..2 : \E i \in DOMAIN mdec.decoded[k].pix :
       mdec.decoded[k].pix[i] # 0
  /\ mdec.decoded[2].image[mdec.decoded[1].chan + 1].pix
       = mdec.decoded[1].pix

---------------------------------------------------------------------------
(* Properties of GatherTreeData and LearnTree *)

Gathered == pc \in {"gathered", "gathered_again", "learned"}

\* The calls a raster-order pass over channel ch makes on the
\* weighted-predictor state: Predict and then UpdateErrors with the pixel.
RasterCallsOf(ch) ==
  [n \in 1..(2 * ch.w * ch.h) |->
     LET k == (n - 1) \div 2
     IN IF n % 2 = 1 THEN <<"Predict", k % ch.w, k \div ch.w>>
        ELSE <<"UpdateErrors", k % ch.w, k \div ch.w, ch.pix[k + 1]>>]

EncWPTracks == {"wp_lookup", "tree_wp"}
DecWPTracks == {"wp_lookup", "notree_wp", "tree_wp"}

\* C11: in every encode track, decode track and gathering pass that holds a
\* weighted::State, the calls on the state are, pixel by pixel in raster
\* order, one Predict followed by one UpdateErrors with the pixel's value
\* (on decode the value just stored), no pixel skipped or visited twice.
C11_WPCallOrder ==
  /\ Encoded /\ enc.track \in EncWPTracks =>
       enc.wp.calls = RasterCallsOf(image[chan + 1])
  /\ ChannelDecoded /\ dec.track \in DecWPTracks =>
       dec.wp.calls = RasterCallsOf(dec_image[chan + 1])
  /\ Gathered =>
       \A k \in 1..Len(learn.passes) :
         learn.passes[k].wp.calls = RasterCallsOf(image[chan + 1])

\* A channel of unequal pixels went through the encoder's and the decoder's
\* general track with weighted-predictor state.
C11_Witness ==
  /\ pc = "decoded"
  /\ enc.track = "tree_wp"
  /\ dec.track = "tree_wp"
  /\ Len(dec.wp.calls) = 2 * MaxW * MaxH
  /\ \E i, j \in 1..(MaxW * MaxH) :
       dec_image[chan + 1].pix[i] # dec_image[chan + 1].pix[j]

\* C13: LearnTree on TreeSamples without samples returns one node, a leaf
\* with the first configured predictor, offset 0 and multiplier 1, whatever
\* tree the growing procedure would have left.
C13_LearnerDegeneracy ==
  pc = "learned" /\ ~HasSamples(learn.tree_samples) =>
    /\ Len(learn.tree) = 1
    /\ learn.tree[1].property = -1
    /\ learn.tree[1].predictor = PredictorFromIndex(learn.tree_samples, 0)
    /\ learn.tree[1].predictor_offset = 0
    /\ learn.tree[1].multiplier = 1

\* LearnTree ran on TreeSamples that two passes left empty, configured with
\* two predictors.
C13_Witness ==
  /\ pc = "learned"
  /\ ~HasSamples(learn.tree_samples)
  /\ NumPredictors(learn.tree_samples) = 2
  /\ Len(learn.passes) = 2
  /\ learn.total_pixels = 2 * MaxW * MaxH
  /\ Len(learn.tree) = 1

\* The decisions of the first n use_sample calls after the seeding, which
\* depend on n and the threshold only.
RECURSIVE SampleLoop(_, _, _, _)
SampleLoop(lo, hi, threshold, a) ==
  IF hi <= lo THEN a
  ELSE IF hi = lo + 1
  THEN Bind(use_sample(a.s, threshold), LAMBDA u :
         [s |-> u.s, decisions |-> Append(a.decisions, u.sample)])
  ELSE Bind(SampleLoop(lo, (lo + hi) \div 2, threshold, a),
            LAMBDA b : SampleLoop((lo + hi) \div 2, hi, threshold, b))

Decisions(n, threshold) ==
  SampleLoop(0, n, threshold, [s |-> kSeed, decisions |-> <<>>]).decisions

\* C15: the sampling decision for the k-th pixel of a channel is the
\* decision of the k-th use_sample call after the seeding, which depends on
\* k and the pixel fraction only; a second pass over the same channel with
\* the same options takes the same decisions and adds the same samples in
\* the same order after the ones gathered before.
C15_SamplingDeterminism ==
  pc = "gathered_again" =>
    LET ch == image[chan + 1]
    IN /\ learn.passes[1].decisions
            = Decisions(ch.w * ch.h,
                Threshold(PixelFraction(learn.options.nb_repeats, ch.w,
                                        ch.h)))
       /\ learn.passes[2].decisions = learn.passes[1].decisions
       /\ learn.passes[2].added = learn.passes[1].added
       /\ learn.tree_samples.samples
            = learn.passes[1].added \o learn.passes[2].added

\* Two passes over a channel of which some pixels were sampled and some
\* were not.
C15_Witness ==
  /\ pc = "gathered_again"
  /\ \E i, j \in 1..Len(learn.passes[2].decisions) :
       learn.passes[2].decisions[i] /\ ~learn.passes[2].decisions[j]
  /\ Len(learn.passes[2].added) > 0
  /\ Len(learn.passes[2].added) < Len(learn.passes[2].decisions)

---------------------------------------------------------------------------
(* Properties of the sampler *)

\* C14: when options.nb_repeats is 0, GatherTreeData adds no sample for any
\* pixel (use_sample returns false for every output of the generator), and
\* the tree learned afterwards is the single leaf with the first predictor,
\* offset 0 and multiplier 1.
C14_FractionZeroDisablesLearning ==
  (pc \in {"sampling", "sampled"} /\ learn.options.nb_repeats.num = 0) =>
    /\ ~HasSamples(learn.tree_samples)
    /\ pc = "sampled" =>
         learn.tree =
           <<Leaf(0, PredictorFromIndex(learn.tree_samples, 0), 0, 1)>>

---------------------------------------------------------------------------
(* Properties of the stream *)

StreamEncoded == pc \in {"group_encoded", "group_read"}

\* The writes of a stand-alone ModularEncode, as the call and its layer.
WriteOrder ==
  << <<"header", GroupLayer>>,
     <<"histograms", "kLayerModularTree">>, <<"tokens", "kLayerModularTree">>,
     <<"histograms", GroupLayer>>, <<"tokens", GroupLayer>> >>

Written(writer) ==
  [i \in 1..Len(writer) |-> <<writer[i].kind, writer[i].layer>>]

\* The reads of ModularDecode before the channels.
ReadOrder == <<"header", "tree", "histograms">>

IsPrefix(a, b) == Len(a) <= Len(b) /\ a = SubSeq(b, 1, Len(a))

\* The channels the loops go through: the non-empty ones before the first
\* that is too large.
RECURSIVE CodedChannels(_, _, _)
CodedChannels(img, i, options) ==
  IF i >= Len(img) THEN <<>>
  ELSE IF EmptyChannel(img[i + 1]) THEN CodedChannels(img, i + 1, options)
  ELSE IF TooLarge(img, i, options) THEN <<>>
  ELSE <<i>> \o CodedChannels(img, i + 1, options)

DecodedChannels == [k \in 1..Len(mdec.decoded) |-> mdec.decoded[k].chan]

\* C16: a stand-alone ModularEncode writes the group header, then the
\* histograms and the tokens of the serialized tree, then the histograms
\* and the tokens of the channel data, and nothing else; ModularDecode reads
\* the header, the tree and the histograms it wrote, then the channels in
\* increasing index, then checks the final state, and every channel is
\* decoded with the tree as it was read.
C16_StreamOrder ==
  /\ (StreamEncoded /\ StandAlone) =>
       /\ IsPrefix(Written(enc.writer), WriteOrder)
       /\ (enc.status = "ok" /\ Len(image) >= 1) =>
            /\ Written(enc.writer) = WriteOrder
            /\ enc.writer[1].value = enc.header
            /\ enc.writer[2].value.num_contexts = Len(TreeContexts)
            /\ DecodeNodes(enc.writer[3].value, 1, <<>>, 1, 0).tree = enc.tree
            /\ enc.writer[4].value.num_contexts = (Len(enc.tree) + 1) \div 2
            /\ enc.writer[5].value =
                 ClusterTokens(enc.tokens,
                               enc.writer[4].value.code.context_map)
            /\ enc.channels =
                 CodedChannels(image, enc.options.skipchannels, enc.options)
  /\ pc = "group_read" =>
       /\ IsPrefix(mdec.read, ReadOrder)
       /\ (mdec.decoded # <<>> \/ mdec.checked) => mdec.read = ReadOrder
       /\ IsPrefix(DecodedChannels,
                   CodedChannels(image, enc.options.skipchannels,
                                 enc.options))
       /\ mdec.checked =>
            DecodedChannels =
              CodedChannels(image, enc.options.skipchannels, enc.options)
       /\ (Len(image) >= 1 /\ mdec.status # "kNotEnoughBytes") =>
            /\ mdec.header = enc.header
            /\ CodedChannels(image, enc.options.skipchannels,
                             enc.options) # <<>> =>
                 /\ mdec.read = ReadOrder
                 /\ mdec.checked
                 /\ mdec.tree = enc.tree
       /\ \A k \in 1..Len(mdec.decoded) :
            /\ mdec.decoded[k].global_tree = mdec.tree
            /\ mdec.tree = enc.tree

\* A learned tree of three nodes was written and read, two channels were
\* decoded around an empty one and the final state was checked.
C16_Witness ==
  /\ pc = "group_read"
  /\ mdec.status = "ok"
  /\ mdec.checked
  /\ Len(enc.writer) = 5
  /\ Len(mdec.tree) = 3
  /\ DecodedChannels = <<0, 2>>
  /\ EmptyChannel(image[2])

---------------------------------------------------------------------------
(* Properties of the flags of FilterTree *)

FlatLeaves(ft) == { i \in 1..Len(ft) : ft[i].property0 = -1 }

\* The nodes of tree the filter reaches from node cur: at a node that tests
\* a static property only the child the static properties select.
RECURSIVE KeptNodes(_, _, _)
KeptNodes(tree, cur, sp) ==
  IF tree[cur + 1].property = -1 THEN {cur}
  ELSE IF IsStatic(tree[cur + 1].property)
  THEN {cur} \cup
       KeptNodes(tree, IF sp[tree[cur + 1].property + 1] > tree[cur + 1].splitval
                       THEN tree[cur + 1].lchild ELSE tree[cur + 1].rchild, sp)
  ELSE {cur} \cup KeptNodes(tree, tree[cur + 1].lchild, sp)
             \cup KeptNodes(tree, tree[cur + 1].rchild, sp)

\* tree with every node pruned by static elimination replaced by node.
Repruned(tree, sp, node) ==
  [i \in 1..Len(tree) |->
     IF (i - 1) \in KeptNodes(tree, 0, sp) THEN tree[i] ELSE node]

Flags(ft) == <<ft.use_wp, ft.wp_only>>

\* C21: use_wp is true iff some leaf of the FlatTree uses the Weighted
\* predictor or some decision of it tests kWPProp; wp_only is true iff every
\* leaf uses the Weighted predictor and no decision tests a non-static
\* property other than kWPProp; wp_only implies use_wp; and the flags are
\* the same whatever the nodes pruned by static elimination hold.
C21_FilterFlags ==
  TreeFiltered =>
    /\ filtered.use_wp <=>
         \/ \E i \in FlatLeaves(filtered.tree) :
              filtered.tree[i].predictor = "Weighted"
         \/ kWPProp \in TestedProperties(filtered.tree)
    /\ filtered.wp_only <=>
         /\ \A i \in FlatLeaves(filtered.tree) :
              filtered.tree[i].predictor = "Weighted"
         /\ \A q \in TestedProperties(filtered.tree) :
              q = kWPProp \/ IsStatic(q)
    /\ filtered.wp_only => filtered.use_wp
    /\ \A node \in {Leaf(0, "Weighted", 0, 1), Leaf(0, "Gradient", 0, 1),
                     Decision(kNumNonrefProperties, 0, 0, 0)} :
         Flags(FilterTree(Repruned(global_tree, <<chan, group_id>>, node),
                          <<chan, group_id>>)) = Flags(filtered)

\* A tree whose static decisions prune a leaf that does not use the
\* Weighted predictor, and a FlatTree with a dummy decision, filtered to a
\* tree that needs the weighted predictor only.
C21_Witness ==
  /\ TreeFiltered
  /\ filtered.wp_only
  /\ \E i \in 1..Len(global_tree) :
       /\ (i - 1) \notin KeptNodes(global_tree, 0, <<chan, group_id>>)
       /\ global_tree[i].property = -1
       /\ global_tree[i].predictor # "Weighted"
  /\ \E i \in FlatDecisions(filtered.tree), j \in 1..2 :
       IsDummySlot(filtered.tree, i, j)

---------------------------------------------------------------------------
(* Properties of the abandoned lookup table *)

\* Every range the table construction takes from its stack when it never
\* stops early.
RECURSIVE VisitedRanges(_, _)
VisitedRanges(tree, ranges) ==
  IF ranges = <<>> THEN {}
  ELSE LET cur == ranges[Len(ranges)]
           rest == SubSeq(ranges, 1, Len(ranges) - 1)
           node == tree[cur.pos + 1]
       IN {cur} \cup (IF node.property0 = -1
                      THEN VisitedRanges(tree, rest)
                      ELSE VisitedRanges(tree,
                             rest \o PushRanges(node, cur)))

\* A split whose range begins below -513 or at or above 511 or ends above
\* 511, or a leaf whose offset is outside [-128, 127]; with strict, also a
\* leaf with multiplier # 1 or offset # 0.
TableRefused(ft, strict) ==
  \E cur \in VisitedRanges(ft.tree,
                <<TreeRange(-kWPPropRange - 1, kWPPropRange - 1, 0)>>) :
    \/ cur.begin < -513 \/ cur.begin >= 511 \/ cur.end > 511
    \/ \E leaf \in {ft.tree[cur.pos + 1]} :
         /\ leaf.property0 = -1
         /\ \/ leaf.predictor_offset < -128
            \/ leaf.predictor_offset > 127
            \/ strict /\ (leaf.multiplier # 1 \/ leaf.predictor_offset # 0)

EncRemainingTracks == {"zero", "shift", "tree_nowp", "tree_wp"}
DecRemainingTracks == {"single_value", "zero", "notree_nowp", "notree_wp",
                       "tree_nowp", "tree_wp"}

\* The fallback of the claim; EncReturns is what is said of the encoder's
\* return.
LookupFallback(EncReturns) ==
  /\ pc \in {"encoded", "aborted", "decoded"} =>
       \A ft \in {FilterTree(global_tree, <<chan, group_id>>)} :
         ft.wp_only /\ TableRefused(ft, TRUE) =>
           /\ enc.track \in EncRemainingTracks
           /\ EncReturns
           /\ \A r \in {EncRunTrack(enc.track, image, chan, enc.header, ft,
                                    None, <<chan, group_id>>, enc.before,
                                    enc.debug)} : r.tokens = tokens
  /\ ChannelDecoded =>
       \A ft \in {DecFilterTree(global_tree, <<chan, group_id>>,
                                dec.context_map)} :
         ft.wp_only /\ TableRefused(ft, FALSE) =>
           /\ dec.track \in DecRemainingTracks
           /\ dec.status = "ok"
           /\ \A r \in {DecodeWith(dec.track, reader, ft, None, dec.header,
                          chan, group_id,
                          <<ZeroChannel(dec_image[chan + 1].w,
                                        dec_image[chan + 1].h)>>)} :
                r.image[chan + 1] = dec_image[chan + 1]

---------------------------------------------------------------------------
(* Properties of the clamped lookup *)

\* Values of the weighted-predictor property outside [-512, 511].
OutsideValues ==
  {-(2 ^ 20), -kWPPropRange - 2, -kWPPropRange - 1, kWPPropRange,
   kWPPropRange + 1, 2 ^ 20}

\* The table entry the lookup track selects for property v, and the leaf
\* traversal reaches with v itself.
ClampedAgrees(ft, table, sp, v, withLeaf) ==
  LET leaf == MATreeLookup(ft, PropsWithWP(sp, v), 0)
      e == TableAt(table, ClampedPos(v) - kWPPropRange)
  IN /\ e.ctx = leaf.childID
     /\ withLeaf => /\ e.multiplier = leaf.multiplier
                    /\ e.offset = leaf.predictor_offset

\* C23: on the lookup-table track the weighted-predictor property is clamped
\* to [-512, 511] before indexing, and for every property value below -512 or
\* above 511 the entry so selected is that of the leaf the traversal of the
\* flat tree reaches with the unclamped value, for every tree on which the
\* table is built (a split of exactly -513 included).
C23_ClampedLookup ==
  /\ EncTableBuilt =>
       \A v \in OutsideValues :
         ClampedAgrees(filtered.tree, enc_lookup.table, <<chan, group_id>>,
                       v, FALSE)
  /\ DecTableBuilt =>
       \A v \in OutsideValues :
         ClampedAgrees(dec_lookup.ft.tree, dec_lookup.table,
                       <<chan, group_id>>, v, TRUE)

---------------------------------------------------------------------------
(* Properties of the residual of the general tracks *)

\* The residual (actual minus guess) and the multiplier of the selected leaf
\* for the pixels k, k + 1, ... of channel c in raster order, the weighted
\* predictor (if used) being in state wp before pixel k.
RECURSIVE PixelResiduals(_, _, _, _, _, _)
PixelResiduals(img, c, ft, sp, k, wp) ==
  IF k = img[c + 1].w * img[c + 1].h THEN <<>>
  ELSE
    LET ch == img[c + 1]
        x == k % ch.w
        y == k \div ch.w
    IN IF ft.use_wp
       THEN Bind(WPPredictAt(wp, ch, x, y), LAMBDA p :
              Bind(MATreeLookup(ft.tree,
                     Properties(img, c, x, y, sp, ft.num_props, p.property),
                     0), LAMBDA leaf :
                <<[residual |-> At(ch, x, y) - leaf.predictor_offset
                      - (IF leaf.predictor = "Weighted" THEN p.guess
                         ELSE PredictNoTreeNoWP(ch, x, y, leaf.predictor)),
                   multiplier |-> leaf.multiplier]>>
                \o PixelResiduals(img, c, ft, sp, k + 1,
                     WPUpdateErrors(p.state, At(ch, x, y), x, y, ch.w))))
       ELSE Bind(MATreeLookup(ft.tree,
                   Properties(img, c, x, y, sp, ft.num_props, 0), 0),
                 LAMBDA leaf :
              <<[residual |-> At(ch, x, y) - leaf.predictor_offset
                    - PredictNoTreeNoWP(ch, x, y, leaf.predictor),
                 multiplier |-> leaf.multiplier]>>
              \o PixelResiduals(img, c, ft, sp, k + 1, wp))

\* The residuals of the channel the encoder was called on.
EncResiduals ==
  Bind(FilterTree(global_tree, <<chan, group_id>>), LAMBDA ft :
    PixelResiduals(image, chan, ft, <<chan, group_id>>, 0,
                   WPInit(enc.header, image[chan + 1].w, image[chan + 1].h)))

EncGeneralTrack ==
  pc \in {"encoded", "aborted", "decoded"}
    /\ enc.track \in {"tree_nowp", "tree_wp"}

---------------------------------------------------------------------------
(* Properties of the power-of-two track *)

ShiftSelected ==
  pc \in {"encoded", "aborted", "decoded"} /\ enc.track = "shift"

ChannelPixels == 0..(image[chan + 1].w * image[chan + 1].h - 1)

\* The leaf multiplier is 2^k and the token of every pixel coded carries
\* PackSigned(residual >> k).
ShiftByLog(k) ==
  /\ global_tree[1].multiplier = 2 ^ k
  /\ \A toks \in {Appended(enc.before, tokens)} :
       \A i \in 1..Len(toks) :
         toks[i].value = PackSigned(ShiftResidual(i - 1) \div (2 ^ k))

ShiftExact(i) ==
  (ShiftResidual(i) \div global_tree[1].multiplier) * global_tree[1].multiplier
    = ShiftResidual(i)

---------------------------------------------------------------------------
(* Properties of the channel loops *)

\* The channels from skipchannels on that are not empty and have no
\* non-empty, non-meta channel wider or higher than max_chan_size at or
\* before them.
SelectedSet(img, options) ==
  { i \in options.skipchannels..(Len(img) - 1) :
      /\ img[i + 1].w # 0 /\ img[i + 1].h # 0
      /\ \A j \in options.skipchannels..i :
           \/ img[j + 1].w = 0 \/ img[j + 1].h = 0
           \/ j < options.nb_meta_channels
           \/ /\ img[j + 1].w <= options.max_chan_size
              /\ img[j + 1].h <= options.max_chan_size }

\* The elements of a set of numbers in increasing order.
Increasing(S) ==
  CHOOSE q \in [1..Cardinality(S) -> S] :
    \A a, b \in 1..Cardinality(S) : a < b => q[a] < q[b]

Selected == Increasing(SelectedSet(image, enc.options))

\* The width of the widest of the channels of q.
Widest(q) ==
  IF q = <<>> THEN 0
  ELSE CHOOSE w \in {image[q[k] + 1].w : k \in 1..Len(q)} :
         \A k \in 1..Len(q) : image[q[k] + 1].w <= w

\* The gathering loop ran: no tree was given, and the tokens were given
\* only together with the samples.
Gathering ==
  /\ ~enc.tree_given
  /\ enc.tree_samples_given \/ ~enc.tokens_given

\* C26: the gathering loop and the encoding loop of ModularEncode and the
\* counting, width and decoding loops of ModularDecode process the same
\* channels in the same increasing order: from skipchannels on, without the
\* channels of zero width or height, up to the first non-meta channel wider
\* or higher than max_chan_size; no later channel is processed.
C26_LockStep ==
  /\ (StreamEncoded /\ enc.status # "failure" /\ Len(image) >= 1) =>
       /\ Gathering => enc.gathered = Selected
       /\ ~Gathering => enc.gathered = <<>>
       /\ IsPrefix(enc.channels, Selected)
       /\ (enc.status = "ok" /\ (enc.tree_given \/ ~enc.tree_samples_given))
            => enc.channels = Selected
       /\ (enc.status = "ok" /\ enc.tree_given) =>
            enc.width = Widest(Selected)
  /\ (pc = "group_read" /\ Len(image) >= 1) =>
       /\ (Selected = <<>>) =
            (mdec.status = "ok" /\ ~mdec.checked /\ mdec.read = <<"header">>)
       /\ IsPrefix(DecodedChannels, Selected)
       /\ mdec.checked => DecodedChannels = Selected
       /\ mdec.read = ReadOrder =>
            mdec.reader.distance_multiplier = Widest(Selected)

\* The samples of the first and the third channel were gathered and these
\* channels encoded and decoded, the second being tall, with a later small
\* channel left out in another run.
C26_Witness ==
  /\ pc = "group_read"
  /\ mdec.checked
  /\ Len(image) = 3
  /\ image[2].h > enc.options.max_chan_size
  /\ enc.options.skipchannels = 0
  /\ enc.gathered = Selected
  /\ enc.channels = Selected
  /\ DecodedChannels = Selected
  /\ \/ Selected = <<0, 2>> /\ EmptyChannel(image[2])
     \/ Selected = <<0>> /\ ~EmptyChannel(image[2])

---------------------------------------------------------------------------
(* Properties of the clustered contexts *)

\* The decoder's flat tree is the encoder's with context_map applied to the
\* context of every leaf and nothing else changed.
Remapped(enc_tree, dec_tree, context_map) ==
  /\ Len(dec_tree) = Len(enc_tree)
  /\ \A i \in 1..Len(enc_tree) :
       IF enc_tree[i].property0 = -1
       THEN dec_tree[i]
              = [enc_tree[i] EXCEPT
                   !.childID = context_map[enc_tree[i].childID + 1]]
       ELSE dec_tree[i] = enc_tree[i]

\* C27: after the remapping every leaf of the decoder's flat tree carries
\* context_map[c], c being the context the encoder's flat tree carries for
\* that leaf, the decision nodes are unchanged, and for every pixel the
\* context the decoder reads from is context_map applied to the context of
\* the token the encoder emitted for that pixel, in every track.
C27_ClusteredContexts ==
  /\ ChannelDecoded =>
       Remapped(FilterTree(global_tree, <<chan, group_id>>).tree,
                DecFilterTree(global_tree, <<chan, group_id>>,
                              dec.context_map).tree,
                dec.context_map)
  /\ pc = "decoded" =>
       \A toks \in {Appended(enc.before, tokens)} :
         \A k \in 1..Len(dec.log) :
           dec.log[k].ctx = dec.context_map[toks[k].ctx + 1]

---------------------------------------------------------------------------
(* Properties of ModularGenericDecompress *)

\* C28: when ModularDecode returns a fatal error, ModularGenericDecompress
\* returns it without undoing the transforms; when ModularDecode returns
\* success or kNotEnoughBytes, the transforms are undone and
\* ModularGenericDecompress returns ModularDecode's status, or a failure if
\* the image is then flagged in error.
C28_DecompressStatus ==
  GroupDecoded =>
    /\ mdec.status \in {"ok", "kNotEnoughBytes", "failure"}
    /\ mdec.status = "failure" =>
         mdec.returned = "failure" /\ ~mdec.undo_transforms
    /\ mdec.status \in {"ok", "kNotEnoughBytes"} =>
         /\ mdec.undo_transforms
         /\ mdec.error => mdec.returned = "failure"
         /\ ~mdec.error => mdec.returned = mdec.status

\* A truncated group whose transforms were undone without an error: the
\* status returned is kNotEnoughBytes.
C28_Witness ==
  /\ GroupDecoded
  /\ mdec.status = "kNotEnoughBytes"
  /\ ~mdec.error
  /\ mdec.undo_transforms
  /\ mdec.returned = "kNotEnoughBytes"

---------------------------------------------------------------------------
(* Properties of FinalizeFrameDecoding *)

FrameReturned == pc = "returned"

\* The rects for which some call of ApplyImageFeaturesRow fails.
FailingRects ==
  { i \in DOMAIN frame.rects_to_process :
      \E y \in DOMAIN frame.rects_to_process[i] :
        ~frame.rects_to_process[i][y] }

FlagStaysFalse ==
  pc = "pool" /\ ~frame.apply_features_ok => ~frame'.apply_features_ok

Propagated ==
  FrameReturned =>
    /\ Len(frame.finished) = Len(frame.rects_to_process)
    /\ FailingRects # {} => frame.returned = "failure" /\ frame.ran = {}
    /\ FailingRects = {} => frame.returned = "ok"

\* C29: if FinalizeImageRect fails for at least one of the enqueued rects,
\* then in every interleaving of the workers FinalizeFrameDecoding returns
\* a failure and runs none of the YCbCr conversion, the upsampling and the
\* XYB conversion; apply_features_ok, once false, is never set back to true;
\* if no rect fails, FinalizeFrameDecoding does not return a failure.
C29_FailurePropagation == [][FlagStaysFalse]_vars /\ []Propagated

\* Two workers; a rect that fails ends before a rect that succeeds, on a
\* frame whose header asks for the upsampling and the XYB conversion.
C29_Witness ==
  /\ FrameReturned
  /\ Len(frame.task) = MaxThreads
  /\ \E i, j \in 1..Len(frame.finished) :
       /\ i < j
       /\ frame.finished[i] \in FailingRects
       /\ frame.finished[j] \notin FailingRects
  /\ AfterFeatures(frame.frame_header) =
       {"UpsampleRect", "OpsinToLinearInplace"}
  /\ frame.returned = "failure"
  /\ frame.ran = {}

---------------------------------------------------------------------------
(* Properties of GenerateFile *)

Generated == pc = "corpus" /\ corpus.calls > 0

\* The call found the file and was not asked to regenerate it.
AlreadyThere == corpus.last.before = "regular" /\ ~corpus.last.regenerate

\* The call ran WriteFile and WriteFile succeeded.
FileWritten == corpus.last.ran \in {"WriteFile", "Stored"} /\ corpus.last.write

ErrorReporting(returned) ==
  /\ returned => AlreadyThere \/ FileWritten
  /\ ~AlreadyThere /\ ~FileWritten => ~returned
  /\ corpus.last.ran = "EncodeFile" => ~returned
  /\ corpus.last.ran = "WriteFile" /\ ~corpus.last.write => ~returned

\* C30: GenerateFile returns false whenever the file was not produced, in
\* particular when encoding fails and when writing the compressed bytes to
\* the output path fails; it returns true only when the file already existed
\* and regeneration was not requested, or when the file was written.
C30_ErrorReporting == Generated => ErrorReporting(corpus.last.returned)

====
